---- MODULE Spec2Model ----
(***************************************************************************)
(* Asteroid impact simulator (SimulationManager, MapManager, EventManager, *)
(* UtilsManager): the consequence calculation and the UI handlers that     *)
(* drive it.                                                               *)
(*                                                                         *)
(* Number representation.  The source computes in IEEE doubles; TLC has    *)
(* bounded integers, so every quantity is carried in one of these forms:   *)
(*   - "lg"   : a non-negative real x that flows through products, powers  *)
(*              and log10 is carried as round(1000 * log10 x) (thousandths *)
(*              of a decade); x = 0 is carried as LgZero (log10 0 is       *)
(*              -Infinity, Math.pow(0, p) is 0 for p > 0);                 *)
(*   - "milli": asteroid-size and asteroid-velocity field values, seismic  *)
(*              magnitude and warning time are carried in thousandths;     *)
(*   - whole  : impact angle (degrees), action time, densities (kg/m3),    *)
(*              water depth (m) and casualty counts are integers;          *)
(*   - "cdeg" : latitude and longitude are in hundredths of a degree, with *)
(*              NaN for a value that is not a number.                      *)
(***************************************************************************)
EXTENDS Integers, Sequences, FiniteSets, TLC

\* ------------------------------------------------------------------------
\* Arithmetic of the lg representation
\* ------------------------------------------------------------------------

\* log10 0 = -Infinity: below every finite lg value
LgZero == -1000000

\* a coordinate that is not a number (parseFloat of '', or a DOM element
\* coerced to a number)
NaN == 99999999

\* round(1000 * log10 n) for n = 1 .. 200
Log10Table ==
    << 
          0,  301,  477,  602,  699,  778,  845,  903,  954, 1000,
       1041, 1079, 1114, 1146, 1176, 1204, 1230, 1255, 1279, 1301,
       1322, 1342, 1362, 1380, 1398, 1415, 1431, 1447, 1462, 1477,
       1491, 1505, 1519, 1531, 1544, 1556, 1568, 1580, 1591, 1602,
       1613, 1623, 1633, 1643, 1653, 1663, 1672, 1681, 1690, 1699,
       1708, 1716, 1724, 1732, 1740, 1748, 1756, 1763, 1771, 1778,
       1785, 1792, 1799, 1806, 1813, 1820, 1826, 1833, 1839, 1845,
       1851, 1857, 1863, 1869, 1875, 1881, 1886, 1892, 1898, 1903,
       1908, 1914, 1919, 1924, 1929, 1934, 1940, 1944, 1949, 1954,
       1959, 1964, 1968, 1973, 1978, 1982, 1987, 1991, 1996, 2000,
       2004, 2009, 2013, 2017, 2021, 2025, 2029, 2033, 2037, 2041,
       2045, 2049, 2053, 2057, 2061, 2064, 2068, 2072, 2076, 2079,
       2083, 2086, 2090, 2093, 2097, 2100, 2104, 2107, 2111, 2114,
       2117, 2121, 2124, 2127, 2130, 2134, 2137, 2140, 2143, 2146,
       2149, 2152, 2155, 2158, 2161, 2164, 2167, 2170, 2173, 2176,
       2179, 2182, 2185, 2188, 2190, 2193, 2196, 2199, 2201, 2204,
       2207, 2210, 2212, 2215, 2217, 2220, 2223, 2225, 2228, 2230,
       2233, 2236, 2238, 2241, 2243, 2246, 2248, 2250, 2253, 2255,
       2258, 2260, 2262, 2265, 2267, 2270, 2272, 2274, 2276, 2279,
       2281, 2283, 2286, 2288, 2290, 2292, 2294, 2297, 2299, 2301
    >>

\* Math.log10 of a positive integer, in thousandths of a decade; integers
\* above 200 are reduced by powers of ten
RECURSIVE Log10(_)
Log10(n) ==
    IF n <= 200 THEN Log10Table[n] ELSE 1000 + Log10(n \div 10)

\* lg of the positive rational num / den
Lg(num, den) == Log10(num) - Log10(den)

\* lg of a field value given in thousandths (0 stays 0)
LgOfMilli(x) == IF x = 0 THEN LgZero ELSE Lg(x, 1000)

\* a * b
LMul(a, b) == IF a = LgZero \/ b = LgZero THEN LgZero ELSE a + b

\* a / b, b > 0
LDiv(a, b) == IF a = LgZero THEN LgZero ELSE a - b

\* Math.pow(x, p / 1000), p > 0, rounded to the nearest thousandth of a decade
LPow(x, p) == IF x = LgZero THEN LgZero ELSE (x * p + 500) \div 1000

Max(a, b) == IF a >= b THEN a ELSE b

Min(a, b) == IF a <= b THEN a ELSE b

\* Math.sqrt of a non-negative integer, rounded down
RECURSIVE SqrtSearch(_, _, _)
SqrtSearch(n, lo, hi) ==
    IF lo >= hi THEN lo
    ELSE LET mid == (lo + hi + 1) \div 2
         IN  IF mid * mid <= n THEN SqrtSearch(n, mid, hi)
                               ELSE SqrtSearch(n, lo, mid - 1)

Sqrt(n) == SqrtSearch(n, 0, 46340)

\* lg of Math.PI
LgPi == 497

\* lg of 4.184 (joules per ton of TNT is 4.184 * 10^9)
LgTNT == 622

\* 10^(a/10), 10^(b/100) and 10^(c/1000), each times 10^4, for a, b, c = 0 .. 9
Pow10Tenths == << 10000, 12589, 15849, 19953, 25119, 31623, 39811, 50119, 63096, 79433 >>

Pow10Hundredths == << 10000, 10233, 10471, 10715, 10965, 11220, 11482, 11749, 12023, 12303 >>

Pow10Thousandths == << 10000, 10023, 10046, 10069, 10093, 10116, 10139, 10162, 10186, 10209 >>

\* 10^k for k = 0 .. 9
RECURSIVE TenTo(_)
TenTo(k) == IF k = 0 THEN 1 ELSE 10 * TenTo(k - 1)

\* Math.round of the real carried as lg value v: the nearest integer to
\* 10^(v/1000), for results below 2 * 10^9
RoundOfLg(v) ==
    IF v = LgZero \/ v < -301 THEN 0
    ELSE IF v < 0 THEN 1
    ELSE LET k == v \div 1000
             f == v % 1000
             m1 == (Pow10Tenths[(f \div 100) + 1] * Pow10Hundredths[((f \div 10) % 10) + 1]) \div 10000
             m  == (m1 * Pow10Thousandths[(f % 10) + 1]) \div 10000
         IN  IF k >= 4 THEN m * TenTo(k - 4)
             ELSE (m + (TenTo(4 - k) \div 2)) \div TenTo(4 - k)

\* ------------------------------------------------------------------------
\* SimulationManager: the consequence calculation
\* ------------------------------------------------------------------------

\* this.parameters as the constructor (and resetSimulation) sets it
DefaultParameters ==
    [asteroidSize |-> 10000, asteroidVelocity |-> 5000, impactAngle |-> 0,
     composition |-> "", strategy |-> "none", actionTime |-> 12,
     latitude |-> 4071, longitude |-> -7401, cameraTarget |-> "free"]

\* this.results = {}
NoResults == [kind |-> "none"]

getAvailableDefenseStrategies == << [type |-> "kinetic"] >>

\* a kinetic effectiveness without the Math.min(0.9, ...) cap
calculateDefenseEffectiveness_NoCap(strategy, asteroidSize, timeToImpact) ==
    IF strategy = "kinetic" THEN 43800 + 4 * timeToImpact ELSE 0

\* effectiveness, as a multiple of 1/87600: min(0.9, 0.5 + (t / 8760) * 0.4)
\* is min(78840, 43800 + 4 t) / 87600; a strategy that is not in the table
\* gives 0
calculateDefenseEffectiveness(strategy, asteroidSize, timeToImpact) ==
    IF strategy = "kinetic"
    THEN Min(78840, 43800 + 4 * timeToImpact)
    ELSE 0

SimDensities == [rocky |-> 3000, metallic |-> 7800, icy |-> 1500, mixed |-> 2500]

SimulationManager_getAsteroidDensity(composition) ==
    IF composition \in DOMAIN SimDensities THEN SimDensities[composition] ELSE 2500

calculateCraterDiameter(explosiveYield, velocity) ==
    LET craterDiameter == LMul(Lg(116, 100), LPow(explosiveYield, 294))
    IN  Max(craterDiameter, Lg(1, 10))

\* calculateFireballRadius without the Math.max floor
calculateFireballRadius_NoFloor(explosiveYield) ==
    LMul(Lg(28, 100), LPow(explosiveYield, 400))

calculateFireballRadius(explosiveYield) ==
    LET fireballRadius == LMul(Lg(28, 100), LPow(explosiveYield, 400))
    IN  Max(fireballRadius, Lg(5, 100))

calculateBlastRadius(explosiveYield) ==
    LET blastRadius == LMul(Lg(45, 100), LPow(explosiveYield, 330))
    IN  Max(blastRadius, Lg(1, 10))

\* magnitude in thousandths: 0.67 * log10(yield) + 4.0, at least 1.0
\* (log10 0 is -Infinity, so a zero yield gives the floor)
calculateSeismicMagnitude(explosiveYield) ==
    IF explosiveYield = LgZero THEN 1000
    ELSE Max((670 * explosiveYield + 500) \div 1000 + 4000, 1000)

\* comparison of coordinates: false when either side is not a number
Geq(a, b) == a # NaN /\ b # NaN /\ a >= b

Leq(a, b) == a # NaN /\ b # NaN /\ a <= b

SimLandRegions ==
    << [minLat |-> -3500, maxLat |-> 3700, minLng |-> -2500, maxLng |-> 6000],
       [minLat |-> 5000, maxLat |-> 8000, minLng |-> 2000, maxLng |-> 18000],
       [minLat |-> 3000, maxLat |-> 7000, minLng |-> -17000, maxLng |-> -5000],
       [minLat |-> -5500, maxLat |-> 1500, minLng |-> -8500, maxLng |-> -3000],
       [minLat |-> -4500, maxLat |-> -1000, minLng |-> 11000, maxLng |-> 15500] >>

isOceanLocation(latitude, longitude) ==
    ~ \E i \in DOMAIN SimLandRegions :
        LET region == SimLandRegions[i]
        IN  /\ Geq(latitude, region.minLat) /\ Leq(latitude, region.maxLat)
            /\ Geq(longitude, region.minLng) /\ Leq(longitude, region.maxLng)

MajorCoasts ==
    << [lat |-> 4071, lng |-> -7401], [lat |-> 5151, lng |-> -13],
       [lat |-> 3568, lng |-> 13965], [lat |-> -3387, lng |-> 15121],
       [lat |-> -2291, lng |-> -4317] >>

\* distance to the nearest listed coast in hundredths of a km (degrees
\* times 111); NaN when a coordinate is not a number (Math.min(x, NaN))
RECURSIVE MinCoastDistance(_, _, _)
MinCoastDistance(latitude, longitude, i) ==
    LET coast == MajorCoasts[i]
        dLat == latitude - coast.lat
        dLng == longitude - coast.lng
        distance == Sqrt(dLat * dLat + dLng * dLng) * 111
    IN  IF i = Len(MajorCoasts) THEN distance
        ELSE Min(distance, MinCoastDistance(latitude, longitude, i + 1))

calculateDistanceFromCoast(latitude, longitude) ==
    IF latitude = NaN \/ longitude = NaN THEN NaN
    ELSE MinCoastDistance(latitude, longitude, 1)

\* water depth in metres
estimateWaterDepth(latitude, longitude) ==
    LET distanceFromCoast == calculateDistanceFromCoast(latitude, longitude)
    IN  IF distanceFromCoast # NaN /\ distanceFromCoast < 5000 THEN 100
        ELSE IF distanceFromCoast # NaN /\ distanceFromCoast < 20000 THEN 1500
        ELSE 4000

\* a tsunami height without the Math.min(..., 100) limit
calculateTsunamiHeight_NoLimit(explosiveYield, waterDepth) ==
    LDiv(LMul(Lg(2, 1), LPow(LMul(LDiv(explosiveYield, Lg(1000, 1)), Lg(1, 10)), 250)),
         LPow(LDiv(Lg(Max(waterDepth, 100), 1), Lg(1000, 1)), 500))

calculateTsunamiHeight(explosiveYield, waterDepth) ==
    LET energyTransfer == Lg(1, 10)
        yieldKt == LDiv(explosiveYield, Lg(1000, 1))
        tsunamiHeight ==
            LDiv(LMul(Lg(2, 1), LPow(LMul(yieldKt, energyTransfer), 250)),
                 LPow(LDiv(Lg(Max(waterDepth, 100), 1), Lg(1000, 1)), 500))
    IN  Min(tsunamiHeight, Lg(100, 1))

assessTsunamiRisk(tsunamiHeight) ==
    IF tsunamiHeight < Lg(1, 1) THEN "Low"
    ELSE IF tsunamiHeight < Lg(5, 1) THEN "Moderate"
    ELSE IF tsunamiHeight < Lg(15, 1) THEN "High"
    ELSE IF tsunamiHeight < Lg(30, 1) THEN "Very High"
    ELSE "Extreme"

calculateTsunamiAffectedDistance(explosiveYield) ==
    LET yieldKt == LDiv(explosiveYield, Lg(1000, 1))
        baseDistance == Lg(200, 1)
        energyFactor == LPow(yieldKt, 400)
    IN  Min(LMul(baseDistance, energyFactor), Lg(2000, 1))

\* warning time in thousandths of an hour: distance / 720 km/h, at least 0.1;
\* Math.max(NaN, 0.1) is NaN
calculateTsunamiWarningTime(latitude, longitude, affectedDistance) ==
    LET nearestCoastDistance == calculateDistanceFromCoast(latitude, longitude)
    IN  IF nearestCoastDistance = NaN THEN NaN
        ELSE Max(nearestCoastDistance \div 72, 100)

\* calculateTsunamiEffects without the early return for land
calculateTsunamiEffects_NoLandCheck(explosiveYield, latitude, longitude) ==
    LET waterDepth == estimateWaterDepth(latitude, longitude)
        tsunamiHeight == calculateTsunamiHeight(explosiveYield, waterDepth)
        affectedDistance == calculateTsunamiAffectedDistance(explosiveYield)
        warningTime == calculateTsunamiWarningTime(latitude, longitude, affectedDistance)
    IN  [tsunamiHeight |-> tsunamiHeight,
         tsunamiRisk |-> assessTsunamiRisk(tsunamiHeight),
         affectedDistance |-> affectedDistance,
         warningTime |-> warningTime]

calculateTsunamiEffects(explosiveYield, latitude, longitude) ==
    LET isOceanImpact == isOceanLocation(latitude, longitude)
        waterDepth == estimateWaterDepth(latitude, longitude)
        tsunamiHeight == calculateTsunamiHeight(explosiveYield, waterDepth)
        affectedDistance == calculateTsunamiAffectedDistance(explosiveYield)
        warningTime == calculateTsunamiWarningTime(latitude, longitude, affectedDistance)
    IN  IF ~ isOceanImpact
        THEN [tsunamiHeight |-> LgZero, tsunamiRisk |-> "None",
              affectedDistance |-> LgZero, warningTime |-> 0]
        ELSE [tsunamiHeight |-> tsunamiHeight,
              tsunamiRisk |-> assessTsunamiRisk(tsunamiHeight),
              affectedDistance |-> affectedDistance,
              warningTime |-> warningTime]

\* Math.floor in place of Math.round for the injured
RoundThreeTenths_Truncate(casualties) ==
    3 * (casualties \div 10) + (3 * (casualties % 10)) \div 10

\* Math.round(casualties * 0.3).  The double nearest 0.3 is below 0.3 by
\* 2^-54 * 0.2, less than a quarter of an ulp of every product, so a product
\* that is half-way between two integers in the reals is computed as exactly
\* that half and Math.round rounds it up.
RoundThreeTenths(casualties) ==
    3 * (casualties \div 10) + (3 * (casualties % 10) + 5) \div 10

\* the m with 2^m <= v < 2^(m+1), v >= 1
RECURSIVE BinaryExponent(_)
BinaryExponent(v) == IF v < 2 THEN 0 ELSE 1 + BinaryExponent(v \div 2)

RECURSIVE TwoTo(_)
TwoTo(m) == IF m = 0 THEN 1 ELSE 2 * TwoTo(m - 1)

\* Math.round(casualties * 0.7).  The double nearest 0.7 is below 0.7 by
\* 0.4 * 2^-53, so the product casualties * 0.7 is short of the real value
\* by 0.2 * casualties / 2^m ulps (2^m <= product < 2^(m+1)); when that
\* exceeds half an ulp a product that is x.5 in the reals is computed as the
\* double below x.5 and Math.round gives x instead of x + 1.
RoundSevenTenths(casualties) ==
    LET half == 7 * (casualties \div 10) + (7 * (casualties % 10) + 5) \div 10
        down == 7 * (casualties \div 10) + (7 * (casualties % 10)) \div 10
    IN  IF casualties % 10 = 5
           /\ 2 * (casualties \div 5) > TwoTo(BinaryExponent(down))
        THEN down
        ELSE half

\* affectedPopulation * casualtyRate, before Math.round
casualtyProduct(blastRadius) ==
    LET populationDensity == Lg(50, 1)
        affectedArea == LMul(LgPi, LPow(blastRadius, 2000))
        affectedPopulation == LMul(affectedArea, populationDensity)
        casualtyRate == Min(Lg(9, 10), LDiv(blastRadius, Lg(100, 1)))
    IN  LMul(affectedPopulation, casualtyRate)

\* calculateCasualties with a fatality rate of 0.8, so that the two rates
\* do not add up to 1
calculateCasualties_EightTenths(explosiveYield, blastRadius) ==
    LET casualties == IF blastRadius # LgZero
                      THEN RoundOfLg(casualtyProduct(blastRadius))
                      ELSE 0
    IN  [estimated |-> casualties,
         injured |-> RoundThreeTenths(casualties),
         fatalities |-> 8 * (casualties \div 10) + (8 * (casualties % 10) + 5) \div 10]

calculateCasualties(explosiveYield, blastRadius) ==
    LET casualties == IF blastRadius # LgZero
                      THEN RoundOfLg(casualtyProduct(blastRadius))
                      ELSE 0
    IN  [estimated |-> casualties,
         injured |-> RoundThreeTenths(casualties),
         fatalities |-> RoundSevenTenths(casualties)]

\* getSeverityClass with the bands closed above (<= for <): a boundary
\* yield falls into the lower band
getSeverityClass_ClosedAbove(explosiveYield) ==
    IF explosiveYield <= Lg(1, 10) THEN "low"
    ELSE IF explosiveYield <= Lg(1, 1) THEN "moderate"
    ELSE IF explosiveYield <= Lg(10, 1) THEN "high"
    ELSE IF explosiveYield <= Lg(100, 1) THEN "severe"
    ELSE "catastrophic"

getSeverityClass(explosiveYield) ==
    IF explosiveYield < Lg(1, 10) THEN "low"
    ELSE IF explosiveYield < Lg(1, 1) THEN "moderate"
    ELSE IF explosiveYield < Lg(10, 1) THEN "high"
    ELSE IF explosiveYield < Lg(100, 1) THEN "severe"
    ELSE "catastrophic"

\* SimImpactData with the diameter taken for the radius
SimImpactData_DiameterAsRadius(asteroidSize, asteroidVelocity, composition) ==
    LET density == SimulationManager_getAsteroidDensity(composition)
        radius == LgOfMilli(asteroidSize)
        mass == LMul(LMul(LMul(Lg(4, 3), LgPi), LPow(radius, 3000)), Lg(density, 1))
        velocity == LMul(LgOfMilli(asteroidVelocity), Lg(1000, 1))
        kineticEnergy == LMul(LMul(Lg(1, 2), mass), LPow(velocity, 2000))
        explosiveYield == LDiv(kineticEnergy, LMul(LgTNT, 9000))
    IN  [mass |-> mass, kineticEnergy |-> kineticEnergy,
         explosiveYield |-> explosiveYield,
         craterDiameter |-> calculateCraterDiameter(explosiveYield, velocity),
         fireballRadius |-> calculateFireballRadius(explosiveYield),
         blastRadius |-> calculateBlastRadius(explosiveYield),
         seismicMagnitude |-> calculateSeismicMagnitude(explosiveYield)]

\* SimImpactData with the operands of the radius division exchanged
SimImpactData_InvertedRadius(asteroidSize, asteroidVelocity, composition) ==
    LET density == SimulationManager_getAsteroidDensity(composition)
        radius == LDiv(Lg(2, 1), LgOfMilli(asteroidSize))
        mass == LMul(LMul(LMul(Lg(4, 3), LgPi), LPow(radius, 3000)), Lg(density, 1))
        velocity == LMul(LgOfMilli(asteroidVelocity), Lg(1000, 1))
        kineticEnergy == LMul(LMul(Lg(1, 2), mass), LPow(velocity, 2000))
        explosiveYield == LDiv(kineticEnergy, LMul(LgTNT, 9000))
    IN  [mass |-> mass, kineticEnergy |-> kineticEnergy,
         explosiveYield |-> explosiveYield,
         craterDiameter |-> calculateCraterDiameter(explosiveYield, velocity),
         fireballRadius |-> calculateFireballRadius(explosiveYield),
         blastRadius |-> calculateBlastRadius(explosiveYield),
         seismicMagnitude |-> calculateSeismicMagnitude(explosiveYield)]

\* the impactData part of calculateResults: mass, energy, yield in tons of
\* TNT and the four effects, from the parsed field values
SimImpactData(asteroidSize, asteroidVelocity, composition) ==
    LET density == SimulationManager_getAsteroidDensity(composition)
        radius == LDiv(LgOfMilli(asteroidSize), Lg(2, 1))
        mass == LMul(LMul(LMul(Lg(4, 3), LgPi), LPow(radius, 3000)), Lg(density, 1))
        velocity == LMul(LgOfMilli(asteroidVelocity), Lg(1000, 1))
        kineticEnergy == LMul(LMul(Lg(1, 2), mass), LPow(velocity, 2000))
        explosiveYield == LDiv(kineticEnergy, LMul(LgTNT, 9000))
    IN  [mass |-> mass, kineticEnergy |-> kineticEnergy,
         explosiveYield |-> explosiveYield,
         craterDiameter |-> calculateCraterDiameter(explosiveYield, velocity),
         fireballRadius |-> calculateFireballRadius(explosiveYield),
         blastRadius |-> calculateBlastRadius(explosiveYield),
         seismicMagnitude |-> calculateSeismicMagnitude(explosiveYield)]

\* value || fallback for a parsed number: 0 (and NaN) are falsy
OrElse(value, fallback) == IF value = 0 \/ value = NaN THEN fallback ELSE value

\* a defense analysis that recommends from an effectiveness of 0.5 on
defenseAnalysis_HalfIsEnough(asteroidSize, timeToImpact) ==
    LET defenseStrategies == getAvailableDefenseStrategies
    IN  [i \in DOMAIN defenseStrategies |->
            [type |-> defenseStrategies[i].type,
             effectiveness |->
                calculateDefenseEffectiveness(defenseStrategies[i].type, asteroidSize, timeToImpact),
             recommended |->
                calculateDefenseEffectiveness(defenseStrategies[i].type, asteroidSize, timeToImpact) > 43800]]

\* the defenseAnalysis list of calculateResults: every available strategy,
\* in order, with its effectiveness and recommended = effectiveness > 0.6
defenseAnalysis(asteroidSize, timeToImpact) ==
    LET defenseStrategies == getAvailableDefenseStrategies
    IN  [i \in DOMAIN defenseStrategies |->
            [type |-> defenseStrategies[i].type,
             effectiveness |->
                calculateDefenseEffectiveness(defenseStrategies[i].type, asteroidSize, timeToImpact),
             recommended |->
                calculateDefenseEffectiveness(defenseStrategies[i].type, asteroidSize, timeToImpact) > 52560]]

\* a calculateResults whose impact velocity is scaled by impactAngle / 90
calculateResults_AngleScalesVelocity(d, p, globalsResolve) ==
    LET asteroidSize == OrElse(d.size, 100000)
        asteroidVelocity == OrElse(d.velocity, 15000)
        impactAngle == OrElse(d.angle, 45)
        composition == IF d.composition = "" THEN "rocky" ELSE d.composition
        strategy == IF d.strategy = "" THEN "none" ELSE d.strategy
        actionTime == OrElse(d.actionTime, 12)
        parameters ==
            [asteroidSize |-> asteroidSize, asteroidVelocity |-> asteroidVelocity,
             impactAngle |-> impactAngle, composition |-> composition,
             strategy |-> strategy, actionTime |-> actionTime,
             latitude |-> p.latitude, longitude |-> p.longitude,
             cameraTarget |-> p.cameraTarget]
        impactData == SimImpactData(asteroidSize, (asteroidVelocity * impactAngle) \div 90,
                                    composition)
        explosiveYield == impactData.explosiveYield
    IN  [threw |-> ~ globalsResolve, parameters |-> parameters,
         results |->
            IF ~ globalsResolve THEN NoResults
            ELSE [kind |-> "results",
                  parameters |-> parameters,
                  impactData |-> impactData,
                  casualties |-> calculateCasualties(explosiveYield, impactData.blastRadius),
                  tsunamiEffects |-> calculateTsunamiEffects(explosiveYield, NaN, NaN),
                  severity |-> getSeverityClass(explosiveYield),
                  defenseStrategies |-> defenseAnalysis(asteroidSize, actionTime * 24),
                  recommendedStrategies |->
                    SelectSeq(defenseAnalysis(asteroidSize, actionTime * 24),
                              LAMBDA s : s.recommended)]]

\* calculateResults reads the fields d, replaces this.parameters (keeping
\* latitude, longitude and cameraTarget of p) and computes this.results.
\* The tsunami call names the free identifiers latitude and longitude: when
\* the page exposes elements with these ids as window properties they
\* resolve to the elements, which coerce to NaN; otherwise the call throws a
\* ReferenceError after this.parameters was replaced and before
\* this.results is assigned.  The results object holds this.parameters
\* itself (parameters: this.parameters), not a copy.
calculateResults(d, p, globalsResolve) ==
    LET asteroidSize == OrElse(d.size, 100000)
        asteroidVelocity == OrElse(d.velocity, 15000)
        impactAngle == OrElse(d.angle, 45)
        composition == IF d.composition = "" THEN "rocky" ELSE d.composition
        strategy == IF d.strategy = "" THEN "none" ELSE d.strategy
        actionTime == OrElse(d.actionTime, 12)
        parameters ==
            [asteroidSize |-> asteroidSize, asteroidVelocity |-> asteroidVelocity,
             impactAngle |-> impactAngle, composition |-> composition,
             strategy |-> strategy, actionTime |-> actionTime,
             latitude |-> p.latitude, longitude |-> p.longitude,
             cameraTarget |-> p.cameraTarget]
        impactData == SimImpactData(asteroidSize, asteroidVelocity, composition)
        explosiveYield == impactData.explosiveYield
        blastRadius == impactData.blastRadius
        casualties == calculateCasualties(explosiveYield, blastRadius)
        tsunamiEffects == calculateTsunamiEffects(explosiveYield, NaN, NaN)
        timeToImpact == actionTime * 24
    IN  IF ~ globalsResolve
        THEN [threw |-> TRUE, parameters |-> parameters, results |-> NoResults]
        ELSE [threw |-> FALSE, parameters |-> parameters,
              results |->
                [kind |-> "results",
                 parameters |-> parameters,
                 impactData |-> impactData,
                 casualties |-> casualties,
                 tsunamiEffects |-> tsunamiEffects,
                 severity |-> getSeverityClass(explosiveYield),
                 defenseStrategies |-> defenseAnalysis(asteroidSize, timeToImpact),
                 recommendedStrategies |->
                    SelectSeq(defenseAnalysis(asteroidSize, timeToImpact),
                              LAMBDA s : s.recommended)]]

\* ------------------------------------------------------------------------
\* MapManager: the map's own impact calculation
\* ------------------------------------------------------------------------

MapDensities == [rocky |-> 3000, metallic |-> 7800, icy |-> 1500, mixed |-> 4500]

MapManager_getAsteroidDensity(composition) ==
    IF composition \in DOMAIN MapDensities THEN MapDensities[composition] ELSE 3000

isContinental(latlng) ==
    LET lat == latlng.lat
        lng == latlng.lng
    IN  \/ Geq(lat, 1500) /\ Leq(lat, 8500) /\ Geq(lng, -18000) /\ Leq(lng, -5000)
        \/ Geq(lat, -6000) /\ Leq(lat, 1500) /\ Geq(lng, -8500) /\ Leq(lng, -3000)
        \/ Geq(lat, 3500) /\ Leq(lat, 7500) /\ Geq(lng, -2500) /\ Leq(lng, 4500)
        \/ Geq(lat, 1500) /\ Leq(lat, 7500) /\ Geq(lng, 4500) /\ Leq(lng, 18000)
        \/ Geq(lat, -3500) /\ Leq(lat, 4000) /\ Geq(lng, -2000) /\ Leq(lng, 5500)
        \/ Geq(lat, -5000) /\ Leq(lat, -1000) /\ Geq(lng, 11000) /\ Leq(lng, 18000)
        \/ Leq(lat, -6000)

\* Math.round(|lat - 40.5| * 111), in km
getDistanceFromCoast(latlng) ==
    LET d == IF latlng.lat >= 4050 THEN latlng.lat - 4050 ELSE 4050 - latlng.lat
    IN  (d * 111 + 50) \div 100

\* lat and lng (hundredths of a degree) inside the closed box
\* [south, north] x [west, east], as the chains of >= and <= test it
InBox(latlng, south, north, west, east) ==
    /\ Geq(latlng.lat, south) /\ Leq(latlng.lat, north)
    /\ Geq(latlng.lng, west) /\ Leq(latlng.lng, east)

\* the values Math.random() returns, in thousandths: 0 <= random < 1
RandomDraws == {0, 500, 999}

\* base + Math.random() * range, in thousandths of a metre
Jitter(base, range, random) == base * 1000 + range * random

\* MapManager.getOceanDepth: every branch adds a Math.random() term; the
\* Pacific test asks for lng >= 120 and lng <= -120 at once
getOceanDepth(latlng, random) ==
    IF InBox(latlng, -6000, 6000, 12000, -12000)
    THEN IF InBox(latlng, 1000, 2000, 14000, 15000) THEN Jitter(10500, 500, random)
         ELSE IF InBox(latlng, -2500, -1500, -17500, -17000) THEN Jitter(9500, 500, random)
         ELSE IF InBox(latlng, -3500, -2500, 17500, 18000) THEN Jitter(9000, 500, random)
         ELSE Jitter(4000, 2000, random)
    ELSE IF InBox(latlng, -6000, 6000, -8000, 2000)
    THEN IF InBox(latlng, 1500, 2500, -7000, -6000) THEN Jitter(8500, 300, random)
         ELSE IF InBox(latlng, -6000, -5000, -3000, -2000) THEN Jitter(8000, 500, random)
         ELSE Jitter(3500, 1500, random)
    ELSE IF InBox(latlng, -6000, 3000, 2000, 12000)
    THEN IF InBox(latlng, -1000, 500, 10000, 11500) THEN Jitter(7500, 500, random)
         ELSE IF InBox(latlng, -3500, -2500, 10000, 11500) THEN Jitter(7000, 300, random)
         ELSE Jitter(3800, 1700, random)
    ELSE IF Geq(latlng.lat, 7000)
    THEN IF Geq(latlng.lng, 0) /\ Leq(latlng.lng, 18000) THEN Jitter(4000, 1000, random)
         ELSE IF Geq(latlng.lng, -18000) /\ Leq(latlng.lng, 0) THEN Jitter(3500, 1000, random)
         ELSE Jitter(1000, 1000, random)
    ELSE IF InBox(latlng, 3000, 4500, -1000, 4000) THEN Jitter(1500, 1000, random)
    ELSE IF InBox(latlng, 1000, 2500, -9000, -6000) THEN Jitter(2000, 1000, random)
    ELSE Jitter(500, 1000, random)

\* MapManager.getCoastalElevation: a region falls through to the next
\* test when none of its coasts matches; every result has a Math.random()
\* term
getCoastalElevation(latlng, random) ==
    LET lat == latlng.lat
        lng == latlng.lng
        Lng(west, east) == Geq(lng, west) /\ Leq(lng, east)
    IN  IF InBox(latlng, 2500, 5000, -12500, -6500) /\ Lng(-12500, -11500)
        THEN Jitter(500, 1500, random)
        ELSE IF InBox(latlng, 2500, 5000, -12500, -6500) /\ Lng(-8000, -6500)
        THEN Jitter(50, 200, random)
        ELSE IF InBox(latlng, 2500, 5000, -12500, -6500)
                /\ InBox(latlng, 2500, 3500, -10000, -8000)
        THEN Jitter(10, 50, random)
        ELSE IF InBox(latlng, 3500, 7000, -2500, 4000)
                /\ InBox(latlng, 3500, 4500, -1000, 4000)
        THEN Jitter(200, 800, random)
        ELSE IF InBox(latlng, 3500, 7000, -2500, 4000)
                /\ InBox(latlng, 3500, 5000, -1000, 500)
        THEN Jitter(100, 400, random)
        ELSE IF InBox(latlng, 3500, 7000, -2500, 4000)
                /\ InBox(latlng, 5000, 6000, -500, 1000)
        THEN Jitter(20, 80, random)
        ELSE IF InBox(latlng, 1500, 7500, 4500, 18000)
                /\ InBox(latlng, 3000, 4500, 13000, 14500)
        THEN Jitter(300, 700, random)
        ELSE IF InBox(latlng, 1500, 7500, 4500, 18000)
                /\ InBox(latlng, 2000, 4000, 11000, 12500)
        THEN Jitter(100, 300, random)
        ELSE IF InBox(latlng, 1500, 7500, 4500, 18000)
                /\ InBox(latlng, 800, 2500, 7000, 8500)
        THEN Jitter(50, 200, random)
        ELSE IF InBox(latlng, -5000, -1000, 11000, 18000) /\ Lng(15000, 15500)
        THEN Jitter(400, 800, random)
        ELSE IF InBox(latlng, -5000, -1000, 11000, 18000) /\ Lng(11000, 12000)
        THEN Jitter(100, 300, random)
        ELSE IF InBox(latlng, -6000, 1500, -9000, -3000) /\ Lng(-8500, -7000)
        THEN Jitter(1000, 2000, random)
        ELSE IF InBox(latlng, -6000, 1500, -9000, -3000) /\ Lng(-5000, -3000)
        THEN Jitter(50, 200, random)
        ELSE IF InBox(latlng, -3500, 4000, -2000, 5500)
                /\ InBox(latlng, 3000, 4000, -1000, 1000)
        THEN Jitter(800, 1200, random)
        ELSE IF InBox(latlng, -3500, 4000, -2000, 5500)
                /\ InBox(latlng, -3500, -2500, 1500, 3500)
        THEN Jitter(200, 600, random)
        ELSE Jitter(50, 150, random)

\* lat and lng strictly inside the box, as the chains of > and < test it
InOpenBox(latlng, south, north, west, east) ==
    /\ latlng.lat # NaN /\ latlng.lng # NaN
    /\ latlng.lat > south /\ latlng.lat < north
    /\ latlng.lng > west /\ latlng.lng < east

\* MapManager.getLocationDetails, the population entry: a string, held as
\* the sequence of its characters
getLocationDetails(latlng) ==
    [population |->
        IF InOpenBox(latlng, 4070, 4080, -7410, -7400) THEN << "8", ".", "8", "M" >>
        ELSE IF InOpenBox(latlng, 3400, 3410, -11830, -11820) THEN << "3", ",", "9", "7", "1", ",", "8", "8", "3" >>
        ELSE IF InOpenBox(latlng, 2570, 2580, -8030, -8020) THEN << "4", "7", "0", ",", "0", "0", "0" >>
        ELSE IF InOpenBox(latlng, 4180, 4190, -8770, -8760) THEN << "2", ".", "7", " ", "m", "i", "l", "l", "i", "o", "n" >>
        ELSE IF InOpenBox(latlng, 5150, 5160, -20, -10) THEN << "9", ".", "5", " ", "m", "i", "l", "l", "i", "o", "n" >>
        ELSE IF InOpenBox(latlng, 3560, 3570, 13970, 13980) THEN << "1", "4", ".", "0", " ", "m", "i", "l", "l", "i", "o", "n" >>
        ELSE IF InOpenBox(latlng, 3000, 5000, -13000, -6000) THEN << "N", "/", "A" >>
        ELSE IF InOpenBox(latlng, 3500, 7000, -2500, 4000) THEN << "N", "/", "A" >>
        ELSE IF InOpenBox(latlng, -6000, 1500, -9000, -3000) THEN << "N", "/", "A" >>
        ELSE IF InOpenBox(latlng, -3500, 3500, 1500, 5500) THEN << "N", "/", "A" >>
        ELSE IF InOpenBox(latlng, -5000, 6000, 6000, 18000) THEN << "N", "/", "A" >>
        ELSE IF latlng.lat # NaN /\ latlng.lat > 6000 THEN << "S", "p", "a", "r", "s", "e" >>
        ELSE IF latlng.lat # NaN /\ latlng.lat < -6000 THEN << "R", "e", "s", "e", "a", "r", "c", "h", " ", "s", "t", "a", "t", "i", "o", "n", "s", " ", "o", "n", "l", "y" >>
        ELSE << "U", "n", "k", "n", "o", "w", "n" >>]

Digits == {"0", "1", "2", "3", "4", "5", "6", "7", "8", "9"}

DigitValue(c) ==
    CHOOSE n \in 0 .. 9 : << "0", "1", "2", "3", "4", "5", "6", "7", "8", "9" >>[n + 1] = c

\* String.prototype.includes for one character
includes(str, c) == \E i \in DOMAIN str : str[i] = c

\* str.replace(c, ''): the first occurrence of the character is removed
RECURSIVE replaceFirst(_, _)
replaceFirst(str, c) ==
    IF str = << >> THEN << >>
    ELSE IF Head(str) = c THEN Tail(str)
    ELSE << Head(str) >> \o replaceFirst(Tail(str), c)

\* the length of the run of digits str starts with
RECURSIVE DigitsPrefixLen(_)
DigitsPrefixLen(str) ==
    IF str = << >> \/ Head(str) \notin Digits THEN 0
    ELSE 1 + DigitsPrefixLen(Tail(str))

\* the number a sequence of digits writes
RECURSIVE DigitsValue(_)
DigitsValue(str) ==
    IF str = << >> THEN 0
    ELSE 10 * DigitsValue(SubSeq(str, 1, Len(str) - 1)) + DigitValue(str[Len(str)])

\* parseFloat, in tenths: the longest prefix digits [. digits] of str (no
\* string here starts with white space, a sign or has an exponent), NaN when
\* the prefix holds no digit; decimals after the first are dropped, and no
\* population string has any
parseFloat(str) ==
    LET n == DigitsPrefixLen(str)
        rest == SubSeq(str, n + 1, Len(str))
        m == IF rest # << >> /\ Head(rest) = "." THEN DigitsPrefixLen(Tail(rest)) ELSE 0
    IN  IF n = 0 /\ m = 0 THEN NaN
        ELSE 10 * DigitsValue(SubSeq(str, 1, n))
                + (IF m > 0 THEN DigitValue(rest[2]) ELSE 0)

\* x * factor, NaN staying NaN
Times(x, factor) == IF x = NaN THEN NaN ELSE x * factor

\* the populationNumber of calculateEstimatedCasualties, in tenths
populationNumber(population) ==
    IF includes(population, "M")
    THEN Times(parseFloat(replaceFirst(population, "M")), 1000000)
    ELSE IF includes(population, "K")
    THEN Times(parseFloat(replaceFirst(population, "K")), 1000)
    ELSE parseFloat(SelectSeq(population, LAMBDA c : c \in Digits \cup {"."}))

\* the casualtyRate of calculateEstimatedCasualties, in hundredths
casualtyRate(impactData) ==
    LET blast == IF impactData.blastRadius > Lg(50000, 1) THEN 80
                 ELSE IF impactData.blastRadius > Lg(20000, 1) THEN 60
                 ELSE IF impactData.blastRadius > Lg(10000, 1) THEN 40
                 ELSE 20
        fireball == IF impactData.fireballRadius > Lg(30000, 1) THEN 30
                    ELSE IF impactData.fireballRadius > Lg(15000, 1) THEN 20
                    ELSE 0
        seismic == IF impactData.seismicMagnitude > 8000 THEN 20
                   ELSE IF impactData.seismicMagnitude > 7000 THEN 10
                   ELSE 0
        tsunami == IF ~ impactData.isContinental /\ impactData.tsunamiHeight > Lg(10, 1)
                   THEN 40
                   ELSE IF ~ impactData.isContinental /\ impactData.tsunamiHeight > Lg(5, 1)
                   THEN 20
                   ELSE 0
    IN  Min(blast + fireball + seismic + tsunami, 95)

\* Math.round(x / unit) for integers x >= 0, unit > 0
RoundDiv(x, unit) == (2 * x + unit) \div (2 * unit)

\* MapManager.calculateEstimatedCasualties: 'N/A' when the population
\* string is 'N/A'; otherwise Math.round(populationNumber * casualtyRate)
\* written with one decimal and the suffix M from a million, K from a
\* thousand, or as it is below; a NaN count is written 'NaN'
calculateEstimatedCasualties(impactData, latlng) ==
    LET population == getLocationDetails(latlng).population
        number == populationNumber(population)
        rate == casualtyRate(impactData)
        estimatedCasualties ==
            (number \div 1000) * rate + RoundDiv((number % 1000) * rate, 1000)
    IN  IF population = << "N", "/", "A" >> THEN [text |-> "N/A"]
        ELSE IF number = NaN THEN [text |-> "NaN"]
        ELSE IF estimatedCasualties >= 1000000
        THEN [text |-> "number", tenths |-> RoundDiv(estimatedCasualties, 100000),
              suffix |-> "M"]
        ELSE IF estimatedCasualties >= 1000
        THEN [text |-> "number", tenths |-> RoundDiv(estimatedCasualties, 100),
              suffix |-> "K"]
        ELSE [text |-> "number", tenths |-> 10 * estimatedCasualties, suffix |-> ""]

\* calculateImpactData reads the size, velocity and composition fields d;
\* the yield is in megatons (energy / 4.184e15), the crater diameter and the
\* radii are in metres, the magnitude in thousandths.  The record carries
\* the fields the map effects, the modal and the tsunami rule use; random
\* is the Math.random() draw of the depth or elevation estimate, in
\* thousandths, and the depth and elevation are in thousandths of a metre.
calculateImpactData(d, latlng, random) ==
    LET asteroidSize == OrElse(d.size, 100000)
        asteroidVelocity == OrElse(d.velocity, 15000)
        impactAngle == 90
        composition == IF d.composition = "" THEN "rocky" ELSE d.composition
        density == MapManager_getAsteroidDensity(composition)
        radius == LDiv(LgOfMilli(asteroidSize), Lg(2, 1))
        volume == LMul(LMul(Lg(4, 3), LgPi), LPow(radius, 3000))
        mass == LMul(volume, Lg(density, 1))
        kineticEnergy ==
            LMul(LMul(Lg(1, 2), mass),
                 LPow(LMul(LgOfMilli(asteroidVelocity), Lg(1000, 1)), 2000))
        explosiveYield == LDiv(kineticEnergy, LMul(LgTNT, 15000))
        craterDiameter == LMul(LPow(explosiveYield, 294), Lg(195, 1))
        fireballRadius == LMul(LPow(explosiveYield, 400), Lg(1000, 1))
        blastRadius == LMul(LPow(explosiveYield, 330), Lg(1000, 1))
        seismicMagnitude ==
            (670 * LMul(explosiveYield, Lg(1000000, 1)) + 500) \div 1000 + 5870
        continental == isContinental(latlng)
        tsunamiHeight ==
            IF ~ continental /\ explosiveYield > Lg(1, 10)
            THEN LMul(LPow(explosiveYield, 500), Lg(100, 1))
            ELSE LgZero
        impactData ==
            [latlng |-> latlng, asteroidSize |-> asteroidSize,
             asteroidVelocity |-> asteroidVelocity, impactAngle |-> impactAngle,
             composition |-> composition, mass |-> mass,
             kineticEnergy |-> kineticEnergy, explosiveYield |-> explosiveYield,
             craterDiameter |-> craterDiameter, fireballRadius |-> fireballRadius,
             blastRadius |-> blastRadius, seismicMagnitude |-> seismicMagnitude,
             tsunamiHeight |-> tsunamiHeight,
             distanceFromCoast |-> getDistanceFromCoast(latlng),
             isContinental |-> continental,
             oceanDepth |-> IF continental THEN 0 ELSE getOceanDepth(latlng, random),
             coastalElevation |->
                IF continental THEN getCoastalElevation(latlng, random) ELSE 0,
             terrainType |-> IF continental THEN "Continental" ELSE "Oceanic"]
    IN  impactData @@ [estimatedCasualties |->
                            calculateEstimatedCasualties(impactData, latlng)]

\* ------------------------------------------------------------------------
\* Parameter validators
\* ------------------------------------------------------------------------

\* UtilsManager.validateAsteroidParameters: diameter and velocity in
\* thousandths, impactAngle in degrees; !x is true for 0
validateAsteroidParameters(params) ==
    LET errors ==
            (IF params.diameter = 0 \/ params.diameter <= 0 \/ params.diameter > 10000000
             THEN << "Diameter must be between 0 and 10,000 meters" >> ELSE << >>)
            \o
            (IF params.velocity = 0 \/ params.velocity <= 0 \/ params.velocity > 100000
             THEN << "Velocity must be between 0 and 100 km/s" >> ELSE << >>)
            \o
            (IF params.impactAngle = 0 \/ params.impactAngle < 0 \/ params.impactAngle > 90
             THEN << "Impact angle must be between 0 and 90 degrees" >> ELSE << >>)
            \o
            (IF params.composition = ""
                \/ params.composition \notin {"rocky", "iron", "carbonaceous"}
             THEN << "Composition must be rocky, iron, or carbonaceous" >> ELSE << >>)
    IN  [isValid |-> Len(errors) = 0, errors |-> errors]

\* validateInputs with the lower limits tested by < instead of <=
validateInputs_ZeroAccepted(d) ==
    IF d.size < 0 \/ d.size > 10000000
    THEN [valid |-> FALSE, message |-> "Asteroid size must be between 0 and 10,000 meters"]
    ELSE IF d.velocity < 0 \/ d.velocity > 100000
    THEN [valid |-> FALSE, message |-> "Asteroid velocity must be between 0 and 100 km/s"]
    ELSE IF d.angle < 0 \/ d.angle > 90
    THEN [valid |-> FALSE, message |-> "Impact angle must be between 0 and 90 degrees"]
    ELSE [valid |-> TRUE, message |-> ""]

\* EventManager.validateInputs on the fields d: the verdict and the error
\* notification it shows ("" when none)
validateInputs(d) ==
    IF d.size <= 0 \/ d.size > 10000000
    THEN [valid |-> FALSE, message |-> "Asteroid size must be between 0 and 10,000 meters"]
    ELSE IF d.velocity <= 0 \/ d.velocity > 100000
    THEN [valid |-> FALSE, message |-> "Asteroid velocity must be between 0 and 100 km/s"]
    ELSE IF d.angle < 0 \/ d.angle > 90
    THEN [valid |-> FALSE, message |-> "Impact angle must be between 0 and 90 degrees"]
    ELSE [valid |-> TRUE, message |-> ""]

\* ------------------------------------------------------------------------
\* The running page: form fields, SimulationManager, MapManager and the
\* EventManager handlers
\* ------------------------------------------------------------------------

VARIABLES
    dom,                \* values of the form fields (document.getElementById(..).value)
    parameters,         \* SimulationManager.parameters
    results,            \* SimulationManager.results
    isSimulating,       \* SimulationManager.isSimulating
    simTimers,          \* pending startSimulation timeouts
    globalsResolve,     \* whether the identifiers latitude / longitude resolve (window.latitude)
    resultsPanel,       \* the results panel is visible
    impactMarker,       \* MapManager.impactMarker: its latlng, or NoMarker
    impactEffects,      \* MapManager.impactEffects: the circles, in order
    trajectory,         \* MapManager.asteroidTrajectory and its markers are on the map
    isSimulationActive, \* MapManager.isSimulationActive
    modal,              \* the simulation modal: shown or not, and the data it displays
    modalTimers,        \* pending showSimulationModal timeouts, each with its latlng
    notification,       \* the notification shown last
    defenseEnabled,     \* the Launch Defense button is enabled
    inputs,             \* form field events and defense, details and reset clicks delivered so far
    call,               \* the function application under examination, if any
    defenseTimers,      \* pending showDefenseResults timeouts, each with its message
    markerOnMap,        \* the layer of MapManager.impactMarker is on the map
    inits,              \* the init() invocations of the application, each with its position
    bindCount,          \* how many times EventManager.bindEvents has run
    created,            \* notifications created so far
    notifications,      \* NotificationManager.notifications, in order
    container,          \* the notifications in the notification container
    removeTimers        \* pending timeouts of showNotification and removeNotification

\* the start-up sequence and the NotificationManager
appVars == << inits, bindCount, created, notifications, container, removeTimers >>

vars == << dom, parameters, results, isSimulating, simTimers, globalsResolve,
           resultsPanel, impactMarker, impactEffects, trajectory,
           isSimulationActive, modal, modalTimers, notification,
           defenseEnabled, inputs, call, defenseTimers, markerOnMap,
           appVars >>

pageVarsOnly == << dom, parameters, results, isSimulating, simTimers,
                  globalsResolve, resultsPanel, impactMarker, impactEffects,
                  trajectory, isSimulationActive, modal, modalTimers,
                  notification, defenseEnabled, inputs, defenseTimers,
                  markerOnMap >>

pageVars == << dom, parameters, results, isSimulating, simTimers, globalsResolve,
               resultsPanel, impactMarker, impactEffects, trajectory,
               isSimulationActive, modal, modalTimers, notification,
               defenseEnabled, inputs, defenseTimers, markerOnMap,
               appVars >>

NoMarker == [lat |-> NaN, lng |-> NaN]

NoCall == [fn |-> "none"]

\* ---- bounds of the model ----

\* form field events and defense, details and reset clicks the model follows
\* in one session
MaxInputs == 2

\* pending startSimulation timeouts the model follows
MaxSimTimers == 2

\* pending modal timeouts the model follows
MaxModalTimers == 1

\* showDefenseResults timeouts pending at once (one launch schedules two)
MaxDefenseTimers == 2

\* notifications created in one session
MaxNotifications == 3

\* casualty products are kept below 10^(MaxCasualtyLg/1000) so that the
\* rounded count fits TLC's integers
MaxCasualtyLg == 9300

\* values the user types into the fields, next to the defaults the page
\* starts with and resets to (size and velocity in thousandths): an empty
\* or zero size, another size and velocity, an angle out of range, a
\* composition, another action time, and zero coordinates.  Sizes and
\* velocities are not negative, so that every product has a logarithm.
SizeInputs == {0, 50000}

VelocityInputs == {20000}

AngleInputs == {91}

CompositionInputs == {"rocky"}

ActionTimeInputs == {100}

LatitudeInputs == {0}

LongitudeInputs == {0}

\* the casualty count of the fields d fits
Fits(d) ==
    casualtyProduct(SimImpactData(OrElse(d.size, 100000), OrElse(d.velocity, 15000),
                                  IF d.composition = "" THEN "rocky" ELSE d.composition
                                 ).blastRadius) < MaxCasualtyLg

Notify(type, message) == [type |-> type, message |-> message]

\* ---- MapManager operations on the effect list ----

\* the circles addImpactEffects draws from the impact data: blast,
\* fireball, three seismic rings, and the tsunami zone when not continental;
\* each radius is the value handed to L.circle
CirclesOf(impactData) ==
    LET seismicRadius == LMul(LPow(impactData.explosiveYield, 400), Lg(500, 1))
        tsunamiRadius == LMul(LPow(impactData.explosiveYield, 500), Lg(1000, 1))
    IN  << [type |-> "blast", radius |-> LMul(impactData.blastRadius, Lg(1000, 1))],
           [type |-> "fireball", radius |-> LMul(impactData.fireballRadius, Lg(1000, 1))],
           [type |-> "seismic", radius |-> LMul(LMul(seismicRadius, Lg(1, 1)), Lg(1000, 1))],
           [type |-> "seismic", radius |-> LMul(LMul(seismicRadius, Lg(2, 1)), Lg(1000, 1))],
           [type |-> "seismic", radius |-> LMul(LMul(seismicRadius, Lg(3, 1)), Lg(1000, 1))] >>
        \o (IF ~ impactData.isContinental
            THEN << [type |-> "tsunami", radius |-> LMul(tsunamiRadius, Lg(1000, 1))] >>
            ELSE << >>)

\* the circles for a marker at latlng; they read no field that depends on
\* the random draw
ImpactCircles(d, latlng) == CirclesOf(calculateImpactData(d, latlng, 0))

\* impactEffects after addImpactEffects (which first removes the effects
\* and the trajectory)
addImpactEffects(d, marker) ==
    IF marker = NoMarker THEN << >> ELSE ImpactCircles(d, marker)

\* MapManager.updateImpactEffects / onAsteroidParametersChanged with the
\* fields d: redraws when a marker exists and a simulation is active
updateImpactEffects(d) ==
    IF impactMarker # NoMarker /\ isSimulationActive
    THEN /\ impactEffects' = addImpactEffects(d, impactMarker)
         /\ trajectory' = FALSE
    ELSE UNCHANGED << impactEffects, trajectory >>

\* the distances populateSimulationModal writes: (x / 1000).toFixed(1) km,
\* held in tenths of a km
populateSimulationModal(impactData) ==
    [craterDiameter |-> RoundOfLg(LMul(LDiv(impactData.craterDiameter, Lg(1000, 1)), Lg(10, 1))),
     fireballRadius |-> RoundOfLg(LMul(LDiv(impactData.fireballRadius, Lg(1000, 1)), Lg(10, 1))),
     blastRadius |-> RoundOfLg(LMul(LDiv(impactData.blastRadius, Lg(1000, 1)), Lg(10, 1)))]

\* ---- NotificationManager ----

\* NotificationManager.maxNotifications
maxNotifications == 5

\* the manager's state as one value
NotificationState ==
    [created |-> created, notifications |-> notifications,
     container |-> container, removeTimers |-> removeTimers]

\* removeNotification: an element still in the container gets the class
\* 'hide' and a 300 ms timeout that takes it out
removeNotification(nm, n) ==
    IF n \in nm.container
    THEN [nm EXCEPT !.removeTimers = @ \cup {[kind |-> "hide", n |-> n]}]
    ELSE nm

RECURSIVE removeAll(_, _)
removeAll(nm, ns) ==
    IF ns = {} THEN nm
    ELSE LET n == CHOOSE x \in ns : TRUE
         IN  removeAll(removeNotification(nm, n), ns \ {n})

\* showNotification(message, type, duration): the element is added to the
\* container, setTimeout(removeNotification, duration) is scheduled whatever
\* the duration is, the element is pushed, and beyond maxNotifications the
\* oldest is shifted out and removed
showNotification(nm, type, duration) ==
    LET n == [id |-> nm.created + 1, type |-> type, duration |-> duration]
        pushed == Append(nm.notifications, n)
        shown == [created |-> nm.created + 1,
                  notifications |-> pushed,
                  container |-> nm.container \cup {n},
                  removeTimers |-> nm.removeTimers \cup {[kind |-> "auto", n |-> n]}]
    IN  IF Len(pushed) > maxNotifications
        THEN removeNotification([shown EXCEPT !.notifications = Tail(pushed)],
                                Head(pushed))
        ELSE shown

\* showLoadingState(message): showNotification(message, 'loading', 0)
showLoadingState(nm) ==
    showNotification(nm, "loading", 0)

\* hideLoadingState: removeNotification for every .notification-loading
\* element of the document
hideLoadingState(nm) ==
    removeAll(nm, {n \in nm.container : n.type = "loading"})

\* clearAll: removeNotification for every entry of this.notifications
clearAll(nm) ==
    removeAll(nm, {nm.notifications[i] : i \in DOMAIN nm.notifications})

\* the 300 ms timeout of removeNotification: the element leaves the
\* container and the array
hideTimeout(nm, t) ==
    [nm EXCEPT !.removeTimers = @ \ {t},
               !.container = @ \ {t.n},
               !.notifications = SelectSeq(@, LAMBDA x : x # t.n)]

\* the timeout of showNotification: removeNotification(notification)
autoRemoveTimeout(nm, t) ==
    removeNotification([nm EXCEPT !.removeTimers = @ \ {t}], t.n)


\* ---- initial state: the page after start-up (constructor, updateUI) ----

NoModalData == [kind |-> "none"]

\* the managers as their constructors leave them
Constructed ==
    /\ dom = [size |-> 10000, velocity |-> 5000, angle |-> 0, composition |-> "",
              strategy |-> "none", actionTime |-> 12,
              latitude |-> 4071, longitude |-> -7401]
    /\ parameters = DefaultParameters
    /\ results = NoResults
    /\ isSimulating = FALSE
    /\ simTimers = 0
    /\ globalsResolve \in BOOLEAN
    /\ resultsPanel = FALSE
    /\ impactMarker = NoMarker
    /\ impactEffects = << >>
    /\ trajectory = FALSE
    /\ isSimulationActive = FALSE
    /\ modal = [active |-> FALSE, showing |-> "none", data |-> NoModalData]
    /\ modalTimers = << >>
    /\ notification = Notify("none", "")
    /\ defenseEnabled = FALSE
    /\ defenseTimers = << >>
    /\ markerOnMap = FALSE
    /\ inputs = 0
    /\ call = NoCall

\* the page in use: start-up is over (both init() invocations have bound the
\* events) and no notification is displayed
Init ==
    /\ Constructed
    /\ inits = << "done", "done" >>
    /\ bindCount = 2
    /\ created = 0
    /\ notifications = << >>
    /\ container = {}
    /\ removeTimers = {}

\* this.results after this.parameters was written in place and now reads p:
\* results.parameters is the same object as this.parameters from the
\* calculateResults that made the results until calculateResults or
\* resetSimulation assigns a new object, and both assign this.results too
\* (a calculateResults that throws never made a results object)
SharedParameters(r, p) ==
    IF r.kind = "results" THEN [r EXCEPT !.parameters = p] ELSE r

\* ---- form field handlers (EventManager.bindFormEvents) ----

\* 'input' on asteroid-size: SimulationManager.updateAsteroidSize, then
\* MapManager.onAsteroidParametersChanged
InputAsteroidSize(v) ==
    LET d == [dom EXCEPT !.size = v]
    IN  /\ inputs < MaxInputs
        /\ inputs' = inputs + 1
        /\ Fits(d)
        /\ dom' = d
        /\ parameters' = IF v > 0 THEN [parameters EXCEPT !.asteroidSize = v]
                                  ELSE parameters
        /\ updateImpactEffects(d)
        /\ results' = SharedParameters(results, parameters')
        /\ UNCHANGED << isSimulating, simTimers, globalsResolve,
                        resultsPanel, impactMarker, isSimulationActive, modal,
                        modalTimers, notification, defenseEnabled, call,
                    defenseTimers, markerOnMap, appVars >>

\* 'change' on composition: SimulationManager.updateAsteroidComposition
ChangeComposition(c) ==
    LET d == [dom EXCEPT !.composition = c]
    IN  /\ inputs < MaxInputs
        /\ inputs' = inputs + 1
        /\ Fits(d)
        /\ dom' = d
        /\ parameters' = IF c # "" THEN [parameters EXCEPT !.composition = c]
                                   ELSE parameters
        /\ updateImpactEffects(d)
        /\ results' = SharedParameters(results, parameters')
        /\ UNCHANGED << isSimulating, simTimers, globalsResolve,
                        resultsPanel, impactMarker, isSimulationActive, modal,
                        modalTimers, notification, defenseEnabled, call,
                    defenseTimers, markerOnMap, appVars >>

\* 'input' on impact-angle: SimulationManager.updateImpactAngle
InputImpactAngle(a) ==
    LET d == [dom EXCEPT !.angle = a]
    IN  /\ inputs < MaxInputs
        /\ inputs' = inputs + 1
        /\ dom' = d
        /\ parameters' = IF a >= 0 THEN [parameters EXCEPT !.impactAngle = a]
                                   ELSE parameters
        /\ updateImpactEffects(d)
        /\ results' = SharedParameters(results, parameters')
        /\ UNCHANGED << isSimulating, simTimers, globalsResolve,
                        resultsPanel, impactMarker, isSimulationActive, modal,
                        modalTimers, notification, defenseEnabled, call,
                    defenseTimers, markerOnMap, appVars >>

\* 'input' on asteroid-velocity: SimulationManager.updateAsteroidVelocity
InputAsteroidVelocity(v) ==
    LET d == [dom EXCEPT !.velocity = v]
    IN  /\ inputs < MaxInputs
        /\ inputs' = inputs + 1
        /\ Fits(d)
        /\ dom' = d
        /\ parameters' = IF v > 0 THEN [parameters EXCEPT !.asteroidVelocity = v]
                                  ELSE parameters
        /\ updateImpactEffects(d)
        /\ results' = SharedParameters(results, parameters')
        /\ UNCHANGED << isSimulating, simTimers, globalsResolve,
                        resultsPanel, impactMarker, isSimulationActive, modal,
                        modalTimers, notification, defenseEnabled, call,
                    defenseTimers, markerOnMap, appVars >>

\* 'input' on action-time: SimulationManager.updateActionTime
InputActionTime(t) ==
    /\ inputs < MaxInputs
    /\ inputs' = inputs + 1
    /\ dom' = [dom EXCEPT !.actionTime = t]
    /\ parameters' = IF t > 0 THEN [parameters EXCEPT !.actionTime = t]
                              ELSE parameters
    /\ results' = SharedParameters(results, parameters')
    /\ UNCHANGED << isSimulating, simTimers, globalsResolve,
                    resultsPanel, impactMarker, impactEffects, trajectory,
                    isSimulationActive, modal, modalTimers, notification,
                    defenseEnabled, call,
                    defenseTimers, markerOnMap, appVars >>

\* EventManager.updateImpactEffects after a coordinate field changed: p is
\* the parameter record just written
CoordinateEffects(p) ==
    IF p.latitude # 0 /\ p.latitude # NaN /\ p.longitude # 0 /\ p.longitude # NaN
       /\ isSimulationActive
    THEN updateImpactEffects(dom')
    ELSE UNCHANGED << impactEffects, trajectory >>

\* 'input' on latitude: EventManager.updateLatitude
InputLatitude(l) ==
    /\ inputs < MaxInputs
    /\ inputs' = inputs + 1
    /\ dom' = [dom EXCEPT !.latitude = l]
    /\ IF Geq(l, -9000) /\ Leq(l, 9000)
       THEN /\ parameters' = [parameters EXCEPT !.latitude = l]
            /\ CoordinateEffects(parameters')
       ELSE UNCHANGED << parameters, impactEffects, trajectory >>
    /\ results' = SharedParameters(results, parameters')
    /\ UNCHANGED << isSimulating, simTimers, globalsResolve,
                    resultsPanel, impactMarker, isSimulationActive, modal,
                    modalTimers, notification, defenseEnabled, call,
                    defenseTimers, markerOnMap, appVars >>

\* 'input' on longitude: EventManager.updateLongitude
InputLongitude(l) ==
    /\ inputs < MaxInputs
    /\ inputs' = inputs + 1
    /\ dom' = [dom EXCEPT !.longitude = l]
    /\ IF Geq(l, -18000) /\ Leq(l, 18000)
       THEN /\ parameters' = [parameters EXCEPT !.longitude = l]
            /\ CoordinateEffects(parameters')
       ELSE UNCHANGED << parameters, impactEffects, trajectory >>
    /\ results' = SharedParameters(results, parameters')
    /\ UNCHANGED << isSimulating, simTimers, globalsResolve,
                    resultsPanel, impactMarker, isSimulationActive, modal,
                    modalTimers, notification, defenseEnabled, call,
                    defenseTimers, markerOnMap, appVars >>

\* ---- simulation handlers ----

\* EventManager.runSimulation (button, Ctrl+Enter, window.runSimulation):
\* refuses while a simulation runs, validates the fields, then
\* SimulationManager.startSimulation arms the 2 s timer
RunSimulation ==
    IF isSimulating
    THEN /\ notification' = Notify("warning", "Simulation already running")
         /\ UNCHANGED << dom, parameters, results, isSimulating, simTimers,
                         globalsResolve, resultsPanel, impactMarker,
                         impactEffects, trajectory, isSimulationActive, modal,
                         modalTimers, defenseEnabled, inputs, call,
                    defenseTimers, markerOnMap, appVars >>
    ELSE IF ~ validateInputs(dom).valid
    THEN /\ notification' = Notify("error", validateInputs(dom).message)
         /\ UNCHANGED << dom, parameters, results, isSimulating, simTimers,
                         globalsResolve, resultsPanel, impactMarker,
                         impactEffects, trajectory, isSimulationActive, modal,
                         modalTimers, defenseEnabled, inputs, call,
                    defenseTimers, markerOnMap, appVars >>
    ELSE /\ simTimers < MaxSimTimers
         /\ isSimulating' = TRUE
         /\ simTimers' = simTimers + 1
         /\ notification' = Notify("loading", "Running simulation...")
         /\ UNCHANGED << dom, parameters, results, globalsResolve,
                         resultsPanel, impactMarker, impactEffects, trajectory,
                         isSimulationActive, modal, modalTimers,
                         defenseEnabled, inputs, call,
                    defenseTimers, markerOnMap, appVars >>

\* the startSimulation timer fires: calculateResults, displayResults,
\* updateImpactMap, isSimulating = false, success notification.  When
\* calculateResults throws, the callback ends after this.parameters was
\* replaced.
SimulationTimeout ==
    /\ simTimers > 0
    /\ simTimers' = simTimers - 1
    /\ LET r == calculateResults(dom, parameters, globalsResolve)
           latlng == [lat |-> r.parameters.latitude, lng |-> r.parameters.longitude]
       IN  /\ parameters' = r.parameters
           /\ IF r.threw
              THEN UNCHANGED << results, resultsPanel, impactMarker,
                                 markerOnMap, impactEffects, trajectory,
                                 isSimulating, notification >>
              ELSE /\ results' = r.results
                   /\ resultsPanel' = TRUE
                   /\ impactMarker' = latlng
                   /\ markerOnMap' = TRUE
                   /\ impactEffects' = addImpactEffects(dom, latlng)
                   /\ trajectory' = FALSE
                   /\ isSimulating' = FALSE
                   /\ notification' = Notify("success", "Simulation completed successfully")
    /\ UNCHANGED << dom, globalsResolve, isSimulationActive, modal,
                    modalTimers, defenseEnabled, inputs, call,
                    defenseTimers, appVars >>

\* EventManager.resetSimulation: SimulationManager.resetSimulation (state,
\* updateUI, results panel, removeImpactEffects), then the notification.
\* Pending timers, the marker and isSimulationActive are left as they are.
ResetSimulation ==
    /\ isSimulating' = FALSE
    /\ results' = NoResults
    /\ parameters' = DefaultParameters
    /\ dom' = [dom EXCEPT !.size = 10000, !.velocity = 5000, !.angle = 0,
                          !.composition = "", !.strategy = "none",
                          !.actionTime = 12]
    /\ resultsPanel' = FALSE
    /\ impactEffects' = << >>
    /\ trajectory' = FALSE
    /\ notification' = Notify("info", "Mission Reset")
    /\ UNCHANGED << simTimers, globalsResolve, impactMarker,
                    isSimulationActive, modal, modalTimers, defenseEnabled,
                    inputs, call,
                    defenseTimers, markerOnMap, appVars >>

\* MapManager.removeImpactEffects: the circles are taken off the map, and
\* with them the trajectory polyline and its markers
removeImpactEffects ==
    [impactEffects |-> << >>, trajectory |-> FALSE]

\* the trajectory when MapManager.runImpactSimulation returns:
\* createAsteroidTrajectory draws it, then addImpactEffects begins with
\* removeImpactEffects
runImpactSimulation_trajectory ==
    LET drawn == TRUE
    IN  IF drawn THEN removeImpactEffects.trajectory ELSE drawn

\* EventManager.launchImpact: four presence checks on the fields, then
\* EventManager.runImpactSimulation at the coordinates of this.parameters
\* (marker, effects, modal and its timer), the notification and the
\* defense button
LaunchImpact ==
    IF dom.size = 0 \/ dom.size = NaN \/ dom.size <= 0
    THEN /\ notification' = Notify("warning", "Asteroid size parameter MISSING")
         /\ UNCHANGED << dom, parameters, results, isSimulating, simTimers,
                         globalsResolve, resultsPanel, impactMarker,
                         impactEffects, trajectory, isSimulationActive, modal,
                         modalTimers, defenseEnabled, inputs, call,
                    defenseTimers, markerOnMap, appVars >>
    ELSE IF dom.velocity = 0 \/ dom.velocity = NaN \/ dom.velocity <= 0
    THEN /\ notification' = Notify("warning", "Asteroid velocity parameter MISSING")
         /\ UNCHANGED << dom, parameters, results, isSimulating, simTimers,
                         globalsResolve, resultsPanel, impactMarker,
                         impactEffects, trajectory, isSimulationActive, modal,
                         modalTimers, defenseEnabled, inputs, call,
                    defenseTimers, markerOnMap, appVars >>
    ELSE IF dom.composition = ""
    THEN /\ notification' = Notify("warning", "Asteroid composition UNKNOWN")
         /\ UNCHANGED << dom, parameters, results, isSimulating, simTimers,
                         globalsResolve, resultsPanel, impactMarker,
                         impactEffects, trajectory, isSimulationActive, modal,
                         modalTimers, defenseEnabled, inputs, call,
                    defenseTimers, markerOnMap, appVars >>
    ELSE IF dom.latitude = 0 \/ dom.latitude = NaN
            \/ dom.longitude = 0 \/ dom.longitude = NaN
    THEN /\ notification' = Notify("warning", "Impact coordinates UNDEFINED")
         /\ UNCHANGED << dom, parameters, results, isSimulating, simTimers,
                         globalsResolve, resultsPanel, impactMarker,
                         impactEffects, trajectory, isSimulationActive, modal,
                         modalTimers, defenseEnabled, inputs, call,
                    defenseTimers, markerOnMap, appVars >>
    ELSE /\ IF parameters.latitude # 0 /\ parameters.latitude # NaN
               /\ parameters.longitude # 0 /\ parameters.longitude # NaN
            THEN LET latlng == [lat |-> parameters.latitude,
                                lng |-> parameters.longitude]
                 IN  /\ Len(modalTimers) < MaxModalTimers
                     /\ impactMarker' = latlng
                     /\ markerOnMap' = TRUE
                     /\ impactEffects' = addImpactEffects(dom, latlng)
                     /\ trajectory' = runImpactSimulation_trajectory
                     /\ isSimulationActive' = TRUE
                     /\ modal' = [modal EXCEPT !.active = TRUE, !.showing = "loading"]
                     /\ modalTimers' = Append(modalTimers, latlng)
            ELSE UNCHANGED << impactMarker, markerOnMap, impactEffects,
                              trajectory, isSimulationActive, modal,
                              modalTimers >>
         /\ notification' = Notify("success", "CATASTROPHIC IMPACT SIMULATION INITIATED")
         /\ defenseEnabled' = TRUE
         /\ UNCHANGED << dom, parameters, results, isSimulating, simTimers,
                         globalsResolve, resultsPanel, inputs, call,
                         defenseTimers, appVars >>

\* the showSimulationModal timer fires: populateSimulationModal computes the
\* impact data of the fields as they are now and shows the results
ModalTimeout ==
    /\ modalTimers # << >>
    /\ modalTimers' = Tail(modalTimers)
    /\ \E random \in RandomDraws :
          modal' = [modal EXCEPT !.showing = "results",
                                 !.data = calculateImpactData(dom, Head(modalTimers),
                                                              random)]
    /\ UNCHANGED << dom, parameters, results, isSimulating, simTimers,
                    globalsResolve, resultsPanel, impactMarker, impactEffects,
                    trajectory, isSimulationActive, notification,
                    defenseEnabled, inputs, call,
                    defenseTimers, markerOnMap, appVars >>

\* the modal's close button
CloseSimulationModal ==
    /\ modal.active
    /\ modal' = [modal EXCEPT !.active = FALSE]
    /\ UNCHANGED << dom, parameters, results, isSimulating, simTimers,
                    globalsResolve, resultsPanel, impactMarker, impactEffects,
                    trajectory, isSimulationActive, modalTimers, notification,
                    defenseEnabled, inputs, call,
                    defenseTimers, markerOnMap, appVars >>

\* a click on Launch Defense (a disabled button delivers none):
\* EventManager.launchDefense, refused with a warning unless
\* mapManager.isSimulationActive; otherwise the notification and the two
\* timeouts of showDefenseResults
LaunchDefense ==
    /\ defenseEnabled
    /\ inputs < MaxInputs
    /\ inputs' = inputs + 1
    /\ IF ~ isSimulationActive
       THEN /\ notification' = Notify("warning", "Please run Impact Simulation first")
            /\ UNCHANGED defenseTimers
       ELSE /\ Len(defenseTimers) + 2 <= MaxDefenseTimers
            /\ notification' = Notify("success", "KINETIC IMPACTOR LAUNCHED")
            /\ defenseTimers' = defenseTimers \o << [type |-> "info", message |-> "DEFENSE SUCCESSFUL"],
                                                    [type |-> "success", message |-> "MISSION ACCOMPLISHED"] >>
    /\ UNCHANGED << dom, parameters, results, isSimulating, simTimers,
                    globalsResolve, resultsPanel, impactMarker, impactEffects,
                    trajectory, isSimulationActive, modal, modalTimers,
                    defenseEnabled, call, markerOnMap, appVars >>

\* a showDefenseResults timeout fires and shows its notification
DefenseTimeout ==
    /\ defenseTimers # << >>
    /\ notification' = Notify(Head(defenseTimers).type, Head(defenseTimers).message)
    /\ defenseTimers' = Tail(defenseTimers)
    /\ UNCHANGED << dom, parameters, results, isSimulating, simTimers,
                    globalsResolve, resultsPanel, impactMarker, impactEffects,
                    trajectory, isSimulationActive, modal, modalTimers,
                    defenseEnabled, inputs, call, markerOnMap, appVars >>

\* EventManager.showImpactDetails: refused with a warning unless
\* mapManager.isSimulationActive; otherwise the modal for the coordinates of
\* this.parameters
ShowImpactDetails ==
    /\ inputs < MaxInputs
    /\ inputs' = inputs + 1
    /\ IF ~ isSimulationActive
       THEN /\ notification' = Notify("warning", "NO SIMULATION DATA AVAILABLE")
            /\ UNCHANGED << modal, modalTimers >>
       ELSE /\ UNCHANGED notification
            /\ IF parameters.latitude # 0 /\ parameters.latitude # NaN
               /\ parameters.longitude # 0 /\ parameters.longitude # NaN
               THEN /\ Len(modalTimers) < MaxModalTimers
                    /\ modal' = [modal EXCEPT !.active = TRUE, !.showing = "loading"]
                    /\ modalTimers' = Append(modalTimers,
                                             [lat |-> parameters.latitude,
                                              lng |-> parameters.longitude])
               ELSE UNCHANGED << modal, modalTimers >>
    /\ UNCHANGED << dom, parameters, results, isSimulating, simTimers,
                    globalsResolve, resultsPanel, impactMarker, impactEffects,
                    trajectory, isSimulationActive, defenseEnabled, call,
                    defenseTimers, markerOnMap, appVars >>

\* the reset button: EventManager.resetImpactSimulation.  The marker, the
\* effects and isSimulationActive are cleared only when a marker exists.
ResetImpactSimulation ==
    /\ inputs < MaxInputs
    /\ inputs' = inputs + 1
    /\ IF impactMarker # NoMarker
       THEN /\ impactMarker' = NoMarker
            /\ markerOnMap' = FALSE
            /\ impactEffects' = removeImpactEffects.impactEffects
            /\ trajectory' = removeImpactEffects.trajectory
            /\ isSimulationActive' = FALSE
       ELSE UNCHANGED << impactMarker, markerOnMap, impactEffects, trajectory,
                         isSimulationActive >>
    /\ defenseEnabled' = FALSE
    /\ notification' = Notify("info", "MISSION RESET INITIATED")
    /\ UNCHANGED << dom, parameters, results, isSimulating, simTimers,
                    globalsResolve, resultsPanel, modal, modalTimers, call,
                    defenseTimers, appVars >>


\* ---- clicks on the map ----

\* places on the map the model clicks on (the New York marker)
MapClicks == { [lat |-> 4071, lng |-> -7401] }

\* MapManager.handleMapClick: an impact marker, if any, is taken off the map
\* with its effects, but this.impactMarker keeps referring to it; the
\* location marker is placed and updateSimulationLocation writes the
\* clicked place into simulationManager.parameters
MapClick(latlng) ==
    /\ IF impactMarker # NoMarker
       THEN /\ markerOnMap' = FALSE
            /\ impactEffects' = removeImpactEffects.impactEffects
            /\ trajectory' = removeImpactEffects.trajectory
       ELSE UNCHANGED << markerOnMap, impactEffects, trajectory >>
    /\ parameters' = [parameters EXCEPT !.latitude = latlng.lat,
                                         !.longitude = latlng.lng]
    /\ results' = SharedParameters(results, parameters')
    /\ UNCHANGED << dom, isSimulating, simTimers, globalsResolve, resultsPanel,
                    impactMarker, isSimulationActive, modal, modalTimers,
                    notification, defenseEnabled, inputs, call,
                    defenseTimers, appVars >>

\* ---- start-up of the application and its notifications ----

\* DOMContentLoaded: new AsteroidDefenseSimulator(), whose constructor calls
\* this.init(), and then the handler's own call of init().  Each invocation
\* runs up to its await of the 100 ms timeout.
DOMContentLoaded ==
    /\ inits = << >>
    /\ inits' = << "await100", "await100" >>
    /\ UNCHANGED << bindCount, created, notifications, container, removeTimers >>
    /\ UNCHANGED pageVarsOnly
    /\ UNCHANGED call

\* an init() invocation resumes after its await: sidebar, map, and the
\* 3000 ms timeout of the Three.js setup
InitResume(i) ==
    /\ inits[i] = "await100"
    /\ inits' = [inits EXCEPT ![i] = "setup3000"]
    /\ UNCHANGED << bindCount, created, notifications, container, removeTimers >>
    /\ UNCHANGED pageVarsOnly
    /\ UNCHANGED call

\* the 3000 ms timeout: without THREE the 2000 ms retry is scheduled;
\* otherwise bindEvents runs once, whether setupThreeJS succeeds or not
ThreeSetupTimeout(i, threeLoaded) ==
    /\ inits[i] = "setup3000"
    /\ IF threeLoaded
       THEN /\ inits' = [inits EXCEPT ![i] = "done"]
            /\ bindCount' = bindCount + 1
       ELSE /\ inits' = [inits EXCEPT ![i] = "retry2000"]
            /\ UNCHANGED bindCount
    /\ UNCHANGED << created, notifications, container, removeTimers >>
    /\ UNCHANGED pageVarsOnly
    /\ UNCHANGED call

\* the 2000 ms retry: setupThreeJS, initializeSolarSystemViewer, bindEvents
RetryTimeout(i) ==
    /\ inits[i] = "retry2000"
    /\ inits' = [inits EXCEPT ![i] = "done"]
    /\ bindCount' = bindCount + 1
    /\ UNCHANGED << created, notifications, container, removeTimers >>
    /\ UNCHANGED pageVarsOnly
    /\ UNCHANGED call

RECURSIVE launchImpactTimes(_, _)
\* launchImpact once per bound listener; with no composition chosen each run
\* ends at its warning
launchImpactTimes(nm, listeners) ==
    IF listeners = 0 THEN nm
    ELSE launchImpactTimes(showNotification(nm, "warning", 5000), listeners - 1)

\* one click on Launch Impact while no composition is chosen: every listener
\* bindButtonEvents added to the button runs launchImpact
ClickLaunchImpact ==
    /\ bindCount > 0
    /\ dom.composition = ""
    /\ created + bindCount <= MaxNotifications
    /\ LET nm == launchImpactTimes(NotificationState, bindCount)
       IN  /\ created' = nm.created
           /\ notifications' = nm.notifications
           /\ container' = nm.container
           /\ removeTimers' = nm.removeTimers
    /\ UNCHANGED << inits, bindCount >>
    /\ UNCHANGED pageVarsOnly
    /\ UNCHANGED call

\* showLoadingState, as startSimulation calls it
ShowLoadingState ==
    /\ inits # << >>
    /\ created < MaxNotifications
    /\ LET nm == showLoadingState(NotificationState)
       IN  /\ created' = nm.created
           /\ notifications' = nm.notifications
           /\ container' = nm.container
           /\ removeTimers' = nm.removeTimers
    /\ UNCHANGED << inits, bindCount >>
    /\ UNCHANGED pageVarsOnly
    /\ UNCHANGED call

\* hideLoadingState, as the startSimulation timeout calls it
HideLoadingState ==
    /\ inits # << >>
    /\ LET nm == hideLoadingState(NotificationState)
       IN  /\ created' = nm.created
           /\ notifications' = nm.notifications
           /\ container' = nm.container
           /\ removeTimers' = nm.removeTimers
    /\ UNCHANGED << inits, bindCount >>
    /\ UNCHANGED pageVarsOnly
    /\ UNCHANGED call

\* clearAll, as showDefenseResults calls it
ClearAll ==
    /\ inits # << >>
    /\ LET nm == clearAll(NotificationState)
       IN  /\ created' = nm.created
           /\ notifications' = nm.notifications
           /\ container' = nm.container
           /\ removeTimers' = nm.removeTimers
    /\ UNCHANGED << inits, bindCount >>
    /\ UNCHANGED pageVarsOnly
    /\ UNCHANGED call

\* the timeout showNotification scheduled for a notification fires
AutoRemoveTimeout(t) ==
    /\ t.kind = "auto"
    /\ LET nm == autoRemoveTimeout(NotificationState, t)
       IN  /\ created' = nm.created
           /\ notifications' = nm.notifications
           /\ container' = nm.container
           /\ removeTimers' = nm.removeTimers
    /\ UNCHANGED << inits, bindCount >>
    /\ UNCHANGED pageVarsOnly
    /\ UNCHANGED call

\* the 300 ms timeout of removeNotification fires
HideTimeout(t) ==
    /\ t.kind = "hide"
    /\ LET nm == hideTimeout(NotificationState, t)
       IN  /\ created' = nm.created
           /\ notifications' = nm.notifications
           /\ container' = nm.container
           /\ removeTimers' = nm.removeTimers
    /\ UNCHANGED << inits, bindCount >>
    /\ UNCHANGED pageVarsOnly
    /\ UNCHANGED call

\* the page from the moment its scripts are loaded
InitStartup ==
    /\ Constructed
    /\ inits = << >>
    /\ bindCount = 0
    /\ created = 0
    /\ notifications = << >>
    /\ container = {}
    /\ removeTimers = {}

NextStartup ==
    \/ DOMContentLoaded
    \/ \E i \in DOMAIN inits : InitResume(i)
    \/ \E i \in DOMAIN inits, threeLoaded \in BOOLEAN : ThreeSetupTimeout(i, threeLoaded)
    \/ \E i \in DOMAIN inits : RetryTimeout(i)
    \/ ClickLaunchImpact
    \/ ShowLoadingState
    \/ HideLoadingState
    \/ ClearAll
    \/ \E t \in removeTimers : AutoRemoveTimeout(t)
    \/ \E t \in removeTimers : HideTimeout(t)

SpecStartup == InitStartup /\ [][NextStartup]_vars


Next ==
    \/ \E v \in SizeInputs : InputAsteroidSize(v)
    \/ \E c \in CompositionInputs : ChangeComposition(c)
    \/ \E a \in AngleInputs : InputImpactAngle(a)
    \/ \E v \in VelocityInputs : InputAsteroidVelocity(v)
    \/ \E t \in ActionTimeInputs : InputActionTime(t)
    \/ \E l \in LatitudeInputs : InputLatitude(l)
    \/ \E l \in LongitudeInputs : InputLongitude(l)
    \/ RunSimulation
    \/ SimulationTimeout
    \/ ResetSimulation
    \/ LaunchImpact
    \/ ModalTimeout
    \/ CloseSimulationModal
    \/ LaunchDefense
    \/ DefenseTimeout
    \/ ShowImpactDetails
    \/ ResetImpactSimulation
    \/ \E latlng \in MapClicks : MapClick(latlng)

Spec == Init /\ [][Next]_vars

\* ------------------------------------------------------------------------
\* The functions on their own: one application at a time, on arguments
\* drawn from the sets below, with the page left as constructed
\* ------------------------------------------------------------------------

\* explosive yields (lg): zero, the band boundaries and their neighbours
YieldArguments ==
    {LgZero, -3000, -1001, -1000, -999, -1, 0, 1, 999, 1000, 1001, 1999, 2000,
     2001, 3671, 6000, 9000}

\* diameters (thousandths of a metre) from the smallest to the largest legal
DiameterArguments == {1, 10000, 100000, 10000000}

\* velocities (thousandths of a km/s) from the smallest to the largest legal
VelocityArguments == {1, 5000, 15000, 100000}

CompositionArguments ==
    {"", "rocky", "metallic", "iron", "icy", "carbonaceous", "mixed", "unknown"}

LatitudeArguments == {-3000, 0, 2000, 4071, 5151, 6000, NaN}

LongitudeArguments == {-12000, -7401, -4000, -13, 0, 10000, 15000, NaN}

\* blast radii (lg of km): the floor 0.1 km, then every step up to 4.5 km
BlastRadiusArguments == {-1000} \cup (-100 .. 650)

\* field values offered to the validators, at and around the limits
ValidatorDiameters == {-1000, 0, 1, 100000, 10000000, 10000001}

ValidatorVelocities == {-1000, 0, 1, 15000, 100000, 100001}

ValidatorAngles == {-1, 0, 45, 90, 91}

\* times to impact, in hours: below, at and above the 2190 hours where the
\* effectiveness is 0.6 and the 8760 hours where it reaches 0.9
TimeArguments == {0, 12, 2190, 2191, 8759, 8760, 8761, 20000}

\* values of the action-time field, which calculateResults multiplies by 24:
\* 24 * 91 < 2190 < 24 * 92
ActionTimeArguments == {0, 12, 91, 92, 365, 1000}

\* values of the impact-angle field, in degrees; 0 reads as the default 45
AngleArguments == {0, 30, 45, 90}

\* a point in every branch of getLocationDetails: the six cities, the five
\* regions, the far north, the far south and two points of the last branch
PopulationPlaces ==
    { [lat |-> 4071, lng |-> -7401], [lat |-> 3405, lng |-> -11825],
      [lat |-> 2575, lng |-> -8025], [lat |-> 4185, lng |-> -8765],
      [lat |-> 5155, lng |-> -15], [lat |-> 3565, lng |-> 13975],
      [lat |-> 4000, lng |-> -10000], [lat |-> 5000, lng |-> 1000],
      [lat |-> -1000, lng |-> -6000], [lat |-> 0, lng |-> 3000],
      [lat |-> 2000, lng |-> 10000], [lat |-> 7000, lng |-> -4000],
      [lat |-> -7000, lng |-> 0], [lat |-> 0, lng |-> 0],
      [lat |-> 0, lng |-> -12000] }

\* a form as calculateResults and calculateImpactData read it
Fields(size, velocity, angle, composition) ==
    [size |-> size, velocity |-> velocity, angle |-> angle,
     composition |-> composition, strategy |-> "none", actionTime |-> 12,
     latitude |-> 4071, longitude |-> -7401]

Call_getSeverityClass(y) ==
    /\ call = NoCall
    /\ call' = [fn |-> "getSeverityClass", explosiveYield |-> y,
                result |-> getSeverityClass(y)]
    /\ UNCHANGED pageVars

Call_SimImpactData(size, velocity, composition) ==
    /\ call = NoCall
    /\ call' = [fn |-> "impactData", asteroidSize |-> size,
                asteroidVelocity |-> velocity, composition |-> composition,
                result |-> SimImpactData(size, velocity, composition)]
    /\ UNCHANGED pageVars

Call_calculateResults(size, velocity, angle, composition, resolve) ==
    /\ call = NoCall
    /\ Fits(Fields(size, velocity, angle, composition))
    /\ call' = [fn |-> "calculateResults",
                fields |-> Fields(size, velocity, angle, composition),
                result |-> calculateResults(Fields(size, velocity, angle, composition),
                                            parameters, resolve)]
    /\ UNCHANGED pageVars

Call_calculateTsunamiEffects(y, latitude, longitude) ==
    /\ call = NoCall
    /\ call' = [fn |-> "calculateTsunamiEffects", explosiveYield |-> y,
                latitude |-> latitude, longitude |-> longitude,
                isOcean |-> isOceanLocation(latitude, longitude),
                result |-> calculateTsunamiEffects(y, latitude, longitude)]
    /\ UNCHANGED pageVars

Call_calculateImpactData(size, velocity, composition, latitude, longitude, random) ==
    /\ call = NoCall
    /\ call' = [fn |-> "calculateImpactData",
                fields |-> Fields(size, velocity, 45, composition),
                result |-> calculateImpactData(Fields(size, velocity, 45, composition),
                                               [lat |-> latitude, lng |-> longitude],
                                               random)]
    /\ UNCHANGED pageVars

Call_calculateCasualties(blastRadius) ==
    /\ call = NoCall
    /\ call' = [fn |-> "calculateCasualties", blastRadius |-> blastRadius,
                result |-> calculateCasualties(LgZero, blastRadius)]
    /\ UNCHANGED pageVars

Call_validateInputs(size, velocity, angle) ==
    /\ call = NoCall
    /\ call' = [fn |-> "validateInputs",
                fields |-> Fields(size, velocity, angle, "rocky"),
                result |-> validateInputs(Fields(size, velocity, angle, "rocky"))]
    /\ UNCHANGED pageVars

Call_validateAsteroidParameters(diameter, velocity, angle, composition) ==
    /\ call = NoCall
    /\ call' = [fn |-> "validateAsteroidParameters",
                params |-> [diameter |-> diameter, velocity |-> velocity,
                            impactAngle |-> angle, composition |-> composition],
                result |-> validateAsteroidParameters(
                              [diameter |-> diameter, velocity |-> velocity,
                               impactAngle |-> angle, composition |-> composition])]
    /\ UNCHANGED pageVars

Call_SimulationManager_getAsteroidDensity(composition) ==
    /\ call = NoCall
    /\ call' = [fn |-> "SimulationManager.getAsteroidDensity",
                composition |-> composition,
                result |-> SimulationManager_getAsteroidDensity(composition)]
    /\ UNCHANGED pageVars

Call_MapManager_getAsteroidDensity(composition) ==
    /\ call = NoCall
    /\ call' = [fn |-> "MapManager.getAsteroidDensity",
                composition |-> composition,
                result |-> MapManager_getAsteroidDensity(composition)]
    /\ UNCHANGED pageVars

\* the impact data of two diameters, velocity and composition the same
Call_SimImpactDataTwice(size1, size2, velocity, composition) ==
    /\ call = NoCall
    /\ call' = [fn |-> "impactDataTwice", asteroidSize1 |-> size1,
                asteroidSize2 |-> size2, asteroidVelocity |-> velocity,
                composition |-> composition,
                result1 |-> SimImpactData(size1, velocity, composition),
                result2 |-> SimImpactData(size2, velocity, composition)]
    /\ UNCHANGED pageVars

\* calculateImpactData applied twice to the same fields and the same
\* location; each application makes its own Math.random() draw
Call_calculateImpactDataTwice(latitude, longitude, random1, random2) ==
    /\ call = NoCall
    /\ call' = [fn |-> "calculateImpactDataTwice",
                fields |-> Fields(10000, 15000, 45, "rocky"),
                latlng |-> [lat |-> latitude, lng |-> longitude],
                result1 |-> calculateImpactData(Fields(10000, 15000, 45, "rocky"),
                                                [lat |-> latitude, lng |-> longitude],
                                                random1),
                result2 |-> calculateImpactData(Fields(10000, 15000, 45, "rocky"),
                                                [lat |-> latitude, lng |-> longitude],
                                                random2)]
    /\ UNCHANGED pageVars

\* calculateDefenseEffectiveness applied to two times to impact
Call_calculateDefenseEffectivenessTwice(strategy, timeToImpact1, timeToImpact2) ==
    /\ call = NoCall
    /\ call' = [fn |-> "calculateDefenseEffectivenessTwice",
                strategy |-> strategy,
                timeToImpact1 |-> timeToImpact1,
                timeToImpact2 |-> timeToImpact2,
                result1 |-> calculateDefenseEffectiveness(strategy, 100000, timeToImpact1),
                result2 |-> calculateDefenseEffectiveness(strategy, 100000, timeToImpact2)]
    /\ UNCHANGED pageVars

\* calculateResults of a form whose action-time field holds actionTime
Call_calculateResultsAt(actionTime) ==
    /\ call = NoCall
    /\ call' = [fn |-> "calculateResultsAt",
                fields |-> [Fields(100000, 15000, 45, "rocky")
                                EXCEPT !.actionTime = actionTime],
                result |-> calculateResults([Fields(100000, 15000, 45, "rocky")
                                                EXCEPT !.actionTime = actionTime],
                                            parameters, TRUE)]
    /\ UNCHANGED pageVars

\* calculateResults of two forms that differ in the impact-angle field only
Call_calculateResultsAngles(size, velocity, angle1, angle2) ==
    /\ call = NoCall
    /\ Fits(Fields(size, velocity, angle1, "rocky"))
    /\ call' = [fn |-> "calculateResultsAngles",
                fields1 |-> Fields(size, velocity, angle1, "rocky"),
                fields2 |-> Fields(size, velocity, angle2, "rocky"),
                result1 |-> calculateResults(Fields(size, velocity, angle1, "rocky"),
                                             parameters, TRUE),
                result2 |-> calculateResults(Fields(size, velocity, angle2, "rocky"),
                                             parameters, TRUE)]
    /\ UNCHANGED pageVars

\* calculateImpactData of two forms that differ in the impact-angle field
\* only, at the same location, each with its own Math.random() draw
Call_calculateImpactDataAngles(angle1, angle2, latitude, longitude, random1, random2) ==
    /\ call = NoCall
    /\ call' = [fn |-> "calculateImpactDataAngles",
                fields1 |-> Fields(100000, 15000, angle1, "rocky"),
                fields2 |-> Fields(100000, 15000, angle2, "rocky"),
                result1 |-> calculateImpactData(Fields(100000, 15000, angle1, "rocky"),
                                                [lat |-> latitude, lng |-> longitude],
                                                random1),
                result2 |-> calculateImpactData(Fields(100000, 15000, angle2, "rocky"),
                                                [lat |-> latitude, lng |-> longitude],
                                                random2)]
    /\ UNCHANGED pageVars

\* calculateImpactData at a place, with the population string
\* getLocationDetails has for it
Call_calculateEstimatedCasualties(size, latlng, random) ==
    /\ call = NoCall
    /\ call' = [fn |-> "calculateEstimatedCasualties",
                fields |-> Fields(size, 15000, 45, "rocky"),
                latlng |-> latlng,
                population |-> getLocationDetails(latlng).population,
                result |-> calculateImpactData(Fields(size, 15000, 45, "rocky"),
                                               latlng, random)]
    /\ UNCHANGED pageVars

\* the two classifiers applied to one location
Call_isOceanLocation(latitude, longitude) ==
    /\ call = NoCall
    /\ call' = [fn |-> "isOceanLocation",
                latitude |-> latitude, longitude |-> longitude,
                isOceanLocation |-> isOceanLocation(latitude, longitude),
                isContinental |-> isContinental([lat |-> latitude, lng |-> longitude])]
    /\ UNCHANGED pageVars

\* the circles addImpactEffects draws and the distances the modal shows for
\* the same fields and marker
Call_addImpactEffects(size, velocity, latlng) ==
    /\ call = NoCall
    /\ call' = [fn |-> "addImpactEffects",
                fields |-> Fields(size, velocity, 45, "rocky"),
                latlng |-> latlng,
                circles |-> ImpactCircles(Fields(size, velocity, 45, "rocky"), latlng),
                modal |-> populateSimulationModal(
                              calculateImpactData(Fields(size, velocity, 45, "rocky"),
                                                  latlng, 0))]
    /\ UNCHANGED pageVars

Return ==
    /\ call # NoCall
    /\ call' = NoCall
    /\ UNCHANGED pageVars

NextFn ==
    \/ \E y \in YieldArguments : Call_getSeverityClass(y)
    \/ \E size \in DiameterArguments, velocity \in VelocityArguments,
          composition \in CompositionArguments :
            Call_SimImpactData(size, velocity, composition)
    \/ \E size \in DiameterArguments, velocity \in VelocityArguments,
          angle \in {0, 45}, composition \in {"", "rocky", "iron"},
          resolve \in BOOLEAN :
            Call_calculateResults(size, velocity, angle, composition, resolve)
    \/ \E y \in YieldArguments, latitude \in LatitudeArguments,
          longitude \in LongitudeArguments :
            Call_calculateTsunamiEffects(y, latitude, longitude)
    \/ \E size \in {10000, 10000000}, velocity \in {1, 15000},
          composition \in {"rocky", "iron"},
          latitude \in LatitudeArguments \ {NaN},
          longitude \in LongitudeArguments \ {NaN}, random \in RandomDraws :
            Call_calculateImpactData(size, velocity, composition, latitude, longitude,
                                     random)
    \/ \E latitude \in LatitudeArguments \ {NaN},
          longitude \in LongitudeArguments \ {NaN},
          random1 \in RandomDraws, random2 \in RandomDraws :
            Call_calculateImpactDataTwice(latitude, longitude, random1, random2)
    \/ \E strategy \in {"kinetic", "nuclear"},
          timeToImpact1 \in TimeArguments, timeToImpact2 \in TimeArguments :
            Call_calculateDefenseEffectivenessTwice(strategy, timeToImpact1,
                                                    timeToImpact2)
    \/ \E actionTime \in ActionTimeArguments : Call_calculateResultsAt(actionTime)
    \/ \E size \in {10000, 100000}, velocity \in {5000, 15000},
          angle1 \in AngleArguments, angle2 \in AngleArguments :
            Call_calculateResultsAngles(size, velocity, angle1, angle2)
    \/ \E angle1 \in AngleArguments, angle2 \in AngleArguments,
          latitude \in {0, 4071}, longitude \in {-12000, -7401},
          random1 \in RandomDraws, random2 \in RandomDraws :
            Call_calculateImpactDataAngles(angle1, angle2, latitude, longitude,
                                           random1, random2)
    \/ \E size \in {10000, 1000000}, latlng \in PopulationPlaces,
          random \in RandomDraws :
            Call_calculateEstimatedCasualties(size, latlng, random)
    \/ \E latitude \in LatitudeArguments \ {NaN},
          longitude \in LongitudeArguments \ {NaN} :
            Call_isOceanLocation(latitude, longitude)
    \/ \E size \in {100000, 1000000}, velocity \in {15000, 20000},
          latlng \in {[lat |-> 4071, lng |-> -7401], [lat |-> 0, lng |-> -12000]} :
            Call_addImpactEffects(size, velocity, latlng)
    \/ \E blastRadius \in BlastRadiusArguments : Call_calculateCasualties(blastRadius)
    \/ \E size \in ValidatorDiameters, velocity \in ValidatorVelocities,
          angle \in ValidatorAngles :
            Call_validateInputs(size, velocity, angle)
    \/ \E diameter \in ValidatorDiameters, velocity \in ValidatorVelocities,
          angle \in ValidatorAngles, composition \in CompositionArguments :
            Call_validateAsteroidParameters(diameter, velocity, angle, composition)
    \/ \E composition \in CompositionArguments :
            Call_SimulationManager_getAsteroidDensity(composition)
    \/ \E composition \in CompositionArguments :
            Call_MapManager_getAsteroidDensity(composition)
    \/ \E size1 \in DiameterArguments, size2 \in DiameterArguments,
          velocity \in VelocityArguments, composition \in CompositionArguments :
            Call_SimImpactDataTwice(size1, size2, velocity, composition)
    \/ Return

SpecFn == Init /\ [][NextFn]_vars

\* ------------------------------------------------------------------------
\* Properties
\* ------------------------------------------------------------------------

\* C1: getSeverityClass(y) is 'low' for y < 0.1, 'moderate' for
\* 0.1 <= y < 1, 'high' for 1 <= y < 10, 'severe' for 10 <= y < 100 and
\* 'catastrophic' for y >= 100; each boundary value is in the upper band.
C1_SeverityBands ==
    call.fn = "getSeverityClass" =>
        LET y == call.explosiveYield
        IN  /\ (y < Lg(1, 10)) => call.result = "low"
            /\ (Lg(1, 10) <= y /\ y < Lg(1, 1)) => call.result = "moderate"
            /\ (Lg(1, 1) <= y /\ y < Lg(10, 1)) => call.result = "high"
            /\ (Lg(10, 1) <= y /\ y < Lg(100, 1)) => call.result = "severe"
            /\ (Lg(100, 1) <= y) => call.result = "catastrophic"

\* a yield of exactly 1.0 was classified, as 'high'
C1_Witness ==
    /\ call.fn = "getSeverityClass"
    /\ call.explosiveYield = Lg(1, 1)
    /\ call.result = "high"

\* the fields of the scenario: 10 m, 5 km/s, rocky
ScenarioCall ==
    /\ call.fn = "calculateResults"
    /\ call.fields.size = 10000
    /\ call.fields.velocity = 5000
    /\ call.fields.composition = "rocky"
    /\ ~ call.result.threw

\* a yield within 1 % of the yield whose lg is y
About(yield, y) == yield >= y - 4 /\ yield <= y + 4

\* C2 as stated: for 10 m, 5 km/s, rocky, calculateResults gives a yield of
\* about 4.69 tons TNT (lg 0.671), in [1,10), and severity 'high'.
C2_AsStated ==
    ScenarioCall =>
        /\ About(call.result.results.impactData.explosiveYield, 671)
        /\ call.result.results.severity = "high"

\* C2 amended: for 10 m, 5 km/s, rocky, calculateResults gives a yield of
\* about 4693 tons TNT (lg 3.671; mass 1.5708e6 kg, energy 1.9635e13 J),
\* which is
\* >= 100, and severity 'catastrophic'.
C2_Scenario ==
    ScenarioCall =>
        /\ About(call.result.results.impactData.explosiveYield, 3671)
        /\ call.result.results.impactData.explosiveYield >= Lg(100, 1)
        /\ call.result.results.severity = "catastrophic"

\* the scenario was computed and classified
C2_Witness ==
    /\ ScenarioCall
    /\ call.result.results.severity = "catastrophic"

NoTsunami ==
    [tsunamiHeight |-> LgZero, tsunamiRisk |-> "None",
     affectedDistance |-> LgZero, warningTime |-> 0]

\* C3: on land the tsunami height is 0 whatever the yield:
\* calculateTsunamiEffects returns height 0, risk 'None', distance 0 and
\* warning time 0 when isOceanLocation is false, calculateImpactData returns
\* height 0 when isContinental is true; a height > 0 occurs only for
\* oceanic locations.
C3_NoTsunamiOnLand ==
    /\ (call.fn = "calculateTsunamiEffects" /\ ~ call.isOcean)
            => call.result = NoTsunami
    /\ (call.fn = "calculateTsunamiEffects" /\ call.result.tsunamiHeight # LgZero)
            => call.isOcean
    /\ (call.fn = "calculateImpactData" /\ call.result.isContinental)
            => call.result.tsunamiHeight = LgZero
    /\ (call.fn = "calculateImpactData" /\ call.result.tsunamiHeight # LgZero)
            => ~ call.result.isContinental

\* a million tons of TNT on land: no tsunami
C3_Witness ==
    /\ call.fn = "calculateTsunamiEffects"
    /\ call.explosiveYield = 6000
    /\ ~ call.isOcean
    /\ call.result.tsunamiHeight = LgZero

\* C4 as stated: for every casualty record of calculateCasualties,
\* injured + fatalities equals estimated exactly.
C4_AsStated ==
    call.fn = "calculateCasualties" =>
        call.result.injured + call.result.fatalities = call.result.estimated

\* C4 amended: injured + fatalities is estimated or estimated + 1, and it
\* is estimated + 1 only when estimated is an odd multiple of 5, where both
\* 0.3 * estimated and 0.7 * estimated lie half-way between two integers
\* (estimated = 5 gives 2 + 4 = 6).
C4_SplitSum ==
    call.fn = "calculateCasualties" =>
        LET sum == call.result.injured + call.result.fatalities
            estimated == call.result.estimated
        IN  /\ sum \in {estimated, estimated + 1}
            /\ (estimated % 10 # 5) => sum = estimated

\* 45 casualties were split into 14 injured and 31 fatalities: here
\* 0.7 * 45 is computed below 31.5 and the sum is exact
C4_Witness ==
    /\ call.fn = "calculateCasualties"
    /\ call.result.estimated = 45
    /\ call.result.injured = 14
    /\ call.result.fatalities = 31

\* C5: for every input of calculateCasualties, injured + fatalities
\* differs from estimated by at most 1.
C5_SplitWithinOne ==
    call.fn = "calculateCasualties" =>
        LET difference == call.result.injured + call.result.fatalities
                            - call.result.estimated
        IN  difference >= -1 /\ difference <= 1

\* 5 casualties were split into 2 injured and 4 fatalities
C5_Witness ==
    /\ call.fn = "calculateCasualties"
    /\ call.result.estimated = 5
    /\ call.result.injured + call.result.fatalities = 6

\* the ranges of the parameter rules: diameter in (0, 10000] m, velocity in
\* (0, 100] km/s (both in thousandths), angle in [0, 90] degrees, and the
\* six composition names
LegalDiameter(x) == x > 0 /\ x <= 10000000

LegalVelocity(x) == x > 0 /\ x <= 100000

LegalAngle(x) == x >= 0 /\ x <= 90

LegalComposition(c) ==
    c \in {"rocky", "metallic", "iron", "icy", "carbonaceous", "mixed"}

\* exactly one of diameter = 0, velocity = 0, angle = -1, angle = 91, the
\* other numeric fields in range
OneIllegal(diameter, velocity, angle) ==
    \/ diameter = 0 /\ LegalVelocity(velocity) /\ LegalAngle(angle)
    \/ LegalDiameter(diameter) /\ velocity = 0 /\ LegalAngle(angle)
    \/ LegalDiameter(diameter) /\ LegalVelocity(velocity) /\ angle \in {-1, 91}

\* C6: diameter = 0, velocity = 0, angle = -1 and angle = 91 (the other
\* fields in range) are each rejected: validateInputs returns false and
\* validateAsteroidParameters returns isValid = false with a non-empty
\* error list.
C6_IllegalRejected ==
    /\ (/\ call.fn = "validateInputs"
        /\ OneIllegal(call.fields.size, call.fields.velocity, call.fields.angle))
            => ~ call.result.valid
    /\ (/\ call.fn = "validateAsteroidParameters"
        /\ OneIllegal(call.params.diameter, call.params.velocity,
                      call.params.impactAngle)
        /\ LegalComposition(call.params.composition))
            => /\ ~ call.result.isValid
               /\ Len(call.result.errors) > 0

\* an angle of 91 degrees, everything else in range, was rejected by
\* validateAsteroidParameters with one error
C6_Witness ==
    /\ call.fn = "validateAsteroidParameters"
    /\ call.params = [diameter |-> 100000, velocity |-> 15000,
                      impactAngle |-> 91, composition |-> "rocky"]
    /\ ~ call.result.isValid
    /\ Len(call.result.errors) = 1

\* C7 as stated: every parameter set whose fields are all legal (angle 0
\* and each of the six compositions included) is accepted:
\* validateAsteroidParameters returns isValid = true and validateInputs
\* returns true.
C7_LegalAccepted ==
    /\ (/\ call.fn = "validateInputs"
        /\ LegalDiameter(call.fields.size)
        /\ LegalVelocity(call.fields.velocity)
        /\ LegalAngle(call.fields.angle))
            => call.result.valid
    /\ (/\ call.fn = "validateAsteroidParameters"
        /\ LegalDiameter(call.params.diameter)
        /\ LegalVelocity(call.params.velocity)
        /\ LegalAngle(call.params.impactAngle)
        /\ LegalComposition(call.params.composition))
            => call.result.isValid

\* a numeric field of the form is out of range
OutOfRange(d) ==
    \/ ~ LegalDiameter(d.size)
    \/ ~ LegalVelocity(d.velocity)
    \/ ~ LegalAngle(d.angle)

\* C8 as stated: while a numeric field is out of range, runSimulation and
\* launchImpact are rejected with a notification and leave the stored
\* results and the map as they were.
C8_OutOfRangeRejected ==
    [][(OutOfRange(dom) /\ (RunSimulation \/ LaunchImpact))
        => /\ notification'.type \in {"error", "warning"}
           /\ UNCHANGED << results, resultsPanel, impactMarker, impactEffects,
                           trajectory, isSimulationActive, modal >>]_vars

\* C9 as stated: for a composition that is not a key of the density table,
\* each getAsteroidDensity returns the 'mixed' density of its own table.
C9_UnknownIsMixed ==
    /\ (/\ call.fn = "SimulationManager.getAsteroidDensity"
        /\ call.composition \notin DOMAIN SimDensities)
            => call.result = SimDensities.mixed
    /\ (/\ call.fn = "MapManager.getAsteroidDensity"
        /\ call.composition \notin DOMAIN MapDensities)
            => call.result = MapDensities.mixed

\* C10: for every legal diameter and velocity, down to the smallest,
\* craterDiameter >= 0.1 km, fireballRadius >= 0.05 km, blastRadius >= 0.1 km
\* and seismicMagnitude >= 1.0.
C10_Floors ==
    (/\ call.fn = "impactData"
     /\ LegalDiameter(call.asteroidSize)
     /\ LegalVelocity(call.asteroidVelocity))
        => /\ call.result.craterDiameter >= Lg(1, 10)
           /\ call.result.fireballRadius >= Lg(5, 100)
           /\ call.result.blastRadius >= Lg(1, 10)
           /\ call.result.seismicMagnitude >= 1000

\* the smallest diameter and velocity: an unfloored fireball of 1.8e-9 km is
\* reported as 0.05 km, the magnitude as 1.0
C10_Witness ==
    /\ call.fn = "impactData"
    /\ call.asteroidSize = 1
    /\ call.asteroidVelocity = 1
    /\ call.result.explosiveYield # LgZero
    /\ call.result.fireballRadius = Lg(5, 100)
    /\ call.result.seismicMagnitude = 1000

\* C11: for fixed velocity and composition and legal diameters d1 <= d2,
\* the results for d2 are not smaller than those for d1 in explosiveYield,
\* craterDiameter, fireballRadius, blastRadius and seismicMagnitude.
C11_MonotonicInDiameter ==
    (/\ call.fn = "impactDataTwice"
     /\ LegalDiameter(call.asteroidSize1)
     /\ LegalDiameter(call.asteroidSize2)
     /\ call.asteroidSize1 <= call.asteroidSize2)
        => /\ call.result1.explosiveYield <= call.result2.explosiveYield
           /\ call.result1.craterDiameter <= call.result2.craterDiameter
           /\ call.result1.fireballRadius <= call.result2.fireballRadius
           /\ call.result1.blastRadius <= call.result2.blastRadius
           /\ call.result1.seismicMagnitude <= call.result2.seismicMagnitude

\* 10 m against 100 m at 15 km/s: every effect is strictly larger
C11_Witness ==
    /\ call.fn = "impactDataTwice"
    /\ call.asteroidSize1 = 10000
    /\ call.asteroidSize2 = 100000
    /\ call.asteroidVelocity = 15000
    /\ call.result1.explosiveYield < call.result2.explosiveYield
    /\ call.result1.craterDiameter < call.result2.craterDiameter
    /\ call.result1.blastRadius < call.result2.blastRadius
    /\ call.result1.seismicMagnitude < call.result2.seismicMagnitude
\* C12: two computations with identical asteroid fields and identical
\* impact location return identical values in every field, oceanDepth and
\* coastalElevation included.  calculateImpactData draws Math.random() for
\* the depth or the elevation, so two applications can differ.
C12_Deterministic ==
    call.fn = "calculateImpactDataTwice" => call.result1 = call.result2
\* C13: the effectiveness of the kinetic strategy is non-decreasing in the
\* time to impact (t1 <= t2, both >= 0, gives e(t1) <= e(t2)) and never
\* exceeds 0.9 (78840 / 87600).
C13_MonotonicInTime ==
    (/\ call.fn = "calculateDefenseEffectivenessTwice"
     /\ call.strategy = "kinetic"
     /\ 0 <= call.timeToImpact1
     /\ call.timeToImpact1 <= call.timeToImpact2)
        => /\ call.result1 <= call.result2
           /\ call.result2 <= 78840

\* an early and a late time: the effectiveness grew and reached the cap
C13_Witness ==
    /\ call.fn = "calculateDefenseEffectivenessTwice"
    /\ call.strategy = "kinetic"
    /\ call.timeToImpact1 = 12
    /\ call.timeToImpact2 = 20000
    /\ call.result1 = 43848
    /\ call.result2 = 78840
\* C14: in every result of calculateResults the defenseStrategies list
\* names the available strategies in declaration order, each entry is
\* recommended exactly when its effectiveness is strictly above 0.6
\* (52560 / 87600), and recommendedStrategies is the sub-list of the
\* recommended entries.
C14_RecommendedAboveSixTenths ==
    (call.fn \in {"calculateResults", "calculateResultsAt"} /\ ~ call.result.threw)
        => LET r == call.result.results
           IN  /\ Len(r.defenseStrategies) = Len(getAvailableDefenseStrategies)
               /\ \A i \in DOMAIN r.defenseStrategies :
                    /\ r.defenseStrategies[i].type = getAvailableDefenseStrategies[i].type
                    /\ r.defenseStrategies[i].recommended
                            <=> r.defenseStrategies[i].effectiveness > 52560
               /\ r.recommendedStrategies
                    = SelectSeq(r.defenseStrategies, LAMBDA s : s.recommended)

\* an action-time field of 92: the kinetic strategy is recommended and listed
C14_Witness ==
    /\ call.fn = "calculateResultsAt"
    /\ call.fields.actionTime = 92
    /\ call.result.results.defenseStrategies[1].effectiveness = 52632
    /\ call.result.results.defenseStrategies[1].recommended
    /\ Len(call.result.results.recommendedStrategies) = 1
C16_RecordNeverChanged ==
    [][(/\ results.kind = "results"
        /\ results'.kind = "results"
        /\ simTimers' = simTimers)
            => results' = results]_vars
\* C17: the impact angle influences no computed effect: two calculateResults
\* runs, or two calculateImpactData runs, of forms that differ in the
\* impact-angle field only agree on mass, kineticEnergy, explosiveYield,
\* craterDiameter, fireballRadius, blastRadius, seismicMagnitude, the
\* casualties, the tsunami and the severity.
C17_AngleIrrelevant ==
    /\ call.fn = "calculateResultsAngles"
        => /\ call.result1.results.impactData = call.result2.results.impactData
           /\ call.result1.results.casualties = call.result2.results.casualties
           /\ call.result1.results.tsunamiEffects = call.result2.results.tsunamiEffects
           /\ call.result1.results.severity = call.result2.results.severity
    /\ call.fn = "calculateImpactDataAngles"
        => \A f \in {"mass", "kineticEnergy", "explosiveYield", "craterDiameter",
                     "fireballRadius", "blastRadius", "seismicMagnitude",
                     "tsunamiHeight", "estimatedCasualties"} :
                call.result1[f] = call.result2[f]

\* 30 and 90 degrees: the parameters differ, the effects do not
C17_Witness ==
    /\ call.fn = "calculateResultsAngles"
    /\ call.result1.parameters.impactAngle = 30
    /\ call.result2.parameters.impactAngle = 90
    /\ call.result1.results.impactData = call.result2.results.impactData
    /\ call.result1.results.impactData.explosiveYield > 0
\* C18: when the population string of the impact location is not a number
\* ('N/A', 'Unknown', 'Sparse', 'Research stations only'), the casualty
\* estimate of calculateImpactData is the marker 'N/A'.  Only the string
\* 'N/A' itself is answered that way; the others are parsed to NaN and the
\* estimate is written 'NaN'.
C18_NoPopulationIsNA ==
    (/\ call.fn = "calculateEstimatedCasualties"
     /\ call.population \in
            { << "N", "/", "A" >>,
              << "U", "n", "k", "n", "o", "w", "n" >>,
              << "S", "p", "a", "r", "s", "e" >>,
              << "R", "e", "s", "e", "a", "r", "c", "h", " ", "s", "t", "a", "t",
                 "i", "o", "n", "s", " ", "o", "n", "l", "y" >> })
        => call.result.estimatedCasualties = [text |-> "N/A"]
\* C19: every point with latitude in [-90, 90] and longitude in
\* [-180, 180], latitude 0 and longitude 0 included, is accepted as an impact
\* location: launchImpact with a size, a velocity and a composition set runs
\* the impact simulation (marker placed, simulation active).  launchImpact
\* tests !latitude || !longitude, which is true for 0.
C19_EveryPointAccepted ==
    [][(/\ LaunchImpact
        /\ dom.size # NaN /\ dom.size > 0
        /\ dom.velocity # NaN /\ dom.velocity > 0
        /\ dom.composition # ""
        /\ Geq(dom.latitude, -9000) /\ Leq(dom.latitude, 9000)
        /\ Geq(dom.longitude, -18000) /\ Leq(dom.longitude, 18000))
            => /\ isSimulationActive'
               /\ impactMarker' = [lat |-> parameters.latitude,
                                   lng |-> parameters.longitude]
               /\ notification'.type = "success"]_vars
\* C20: calculateResults computes the tsunami effects for the location held
\* in the simulation parameters: it completes, and the tsunami record of the
\* result is calculateTsunamiEffects(yield, parameters.latitude,
\* parameters.longitude).  The call names the identifiers latitude and
\* longitude, which are not the parameters.
C20_TsunamiAtParameters ==
    call.fn = "calculateResults"
        => /\ ~ call.result.threw
           /\ call.result.results.tsunamiEffects
                = calculateTsunamiEffects(call.result.results.impactData.explosiveYield,
                                          call.result.parameters.latitude,
                                          call.result.parameters.longitude)
\* C21: the time to impact given to the effectiveness formula is the action
\* time as stored, in hours, without further scaling: the effectiveness in
\* the result is that of parameters.actionTime hours.  calculateResults
\* multiplies the stored value by 24 first.
C21_ActionTimeIsHours ==
    (call.fn = "calculateResultsAt" /\ ~ call.result.threw)
        => \A i \in DOMAIN call.result.results.defenseStrategies :
              call.result.results.defenseStrategies[i].effectiveness
                = calculateDefenseEffectiveness(
                      call.result.results.defenseStrategies[i].type,
                      call.result.parameters.asteroidSize,
                      call.result.parameters.actionTime)
\* C22: the two land/ocean classifiers agree on every location with
\* latitude in [-90, 90] and longitude in [-180, 180]: isOceanLocation is
\* true exactly when isContinental is false.  The two use different boxes.
C22_ClassifiersAgree ==
    (/\ call.fn = "isOceanLocation"
     /\ -9000 <= call.latitude /\ call.latitude <= 9000
     /\ -18000 <= call.longitude /\ call.longitude <= 18000)
        => (call.isOceanLocation <=> ~ call.isContinental)
\* C23: the radius of the blast circle and of the fireball circle on the
\* map is the distance the modal shows for it: the value handed to the map,
\* in metres, is 1000 times the km figure displayed (to the 0.1 km of the
\* display, for figures from 1 km on).  addBlastRadius and addFireballRadius
\* multiply by 1000 a radius that is in metres already.
C23_CircleIsDisplayedRadius ==
    call.fn = "addImpactEffects"
        => \A i \in DOMAIN call.circles :
              /\ (call.circles[i].type = "blast" /\ call.modal.blastRadius >= 10)
                    => /\ call.circles[i].radius
                            >= LMul(Lg(call.modal.blastRadius, 10), Lg(1000, 1)) - 25
                       /\ call.circles[i].radius
                            <= LMul(Lg(call.modal.blastRadius, 10), Lg(1000, 1)) + 25
              /\ (call.circles[i].type = "fireball" /\ call.modal.fireballRadius >= 10)
                    => /\ call.circles[i].radius
                            >= LMul(Lg(call.modal.fireballRadius, 10), Lg(1000, 1)) - 25
                       /\ call.circles[i].radius
                            <= LMul(Lg(call.modal.fireballRadius, 10), Lg(1000, 1)) + 25

\* C24: at most one simulation computation is pending at any time: a run
\* request made while an earlier started simulation has not completed
\* schedules no second startSimulation timer
C24_OnePendingComputation ==
    simTimers <= 1

\* C25: after resetSimulation the stored results stay empty and the
\* parameters stay as they are until a new simulation is started or a field
\* is edited.  While the results are empty and no simulation is running,
\* every pending startSimulation timer was scheduled before the last reset;
\* such a timer, when it fires, writes neither results nor parameters.
C25_ResetIsFinal ==
    [][ (results = NoResults /\ ~ isSimulating /\ SimulationTimeout)
            => (results' = NoResults /\ parameters' = parameters) ]_vars

\* C26: launchDefense and showImpactDetails proceed exactly when
\* mapManager.isSimulationActive holds; after any reset, by the reset button
\* (resetImpactSimulation) or by Ctrl+R (resetSimulation), it is false, so
\* both are refused until a new impact simulation is run
C26_ResetRefusesDefense ==
    [][ (ResetSimulation \/ ResetImpactSimulation) => ~ isSimulationActive' ]_vars

\* C27: when MapManager.runImpactSimulation returns (Launch Impact with
\* coordinates set), the trajectory it created is on the map together with
\* the impact marker and the effect circles
C27_TrajectoryOnMap ==
    [][ (LaunchImpact /\ modalTimers' # modalTimers)
            => (trajectory' /\ impactMarker' # NoMarker /\ impactEffects' # << >>) ]_vars

\* C28: impact effect circles exist only while an impact marker is displayed
\* on the map: a removed marker never has effects drawn around it
C28_EffectsNeedMarker ==
    impactEffects # << >> => (impactMarker # NoMarker /\ markerOnMap)

\* C29: a loading notification is not auto-removed: the timeout that
\* showNotification schedules never takes a loading notification off, so it
\* stays displayed until hideLoadingState is called
C29_LoadingNotAutoRemoved ==
    [][ \A t \in removeTimers :
            AutoRemoveTimeout(t) => t.n.type # "loading" ]_vars

\* C30: over the whole start-up sequence EventManager.bindEvents runs at
\* most once, so one click runs a handler once
C30_BoundOnce ==
    bindCount <= 1

====
